---------------------------- MODULE Spec2Model ----------------------------
(***************************************************************************)
(* A model of pyneat: the genome (nodes, edges, distance, crossover and    *)
(* the six mutation operators), speciation (Population.partition), the     *)
(* quota computation (Partitions.adjust_fitnesses / next_partition_sizes)  *)
(* and the evolution loop (next_generation, run).                          *)
(*                                                                         *)
(* Reals are modelled by exact rational arithmetic over integers.  The     *)
(* coefficients 0.5 of config.py are kept exact by carrying every          *)
(* distance multiplied by two (the definitions named ..._X2).  Where the   *)
(* code rounds a float that was itself computed by a float division, a     *)
(* value that is exactly on a rounding boundary may fall on either side;   *)
(* the model then allows both outcomes.                                    *)
(*                                                                         *)
(* Every random draw of the code is a nondeterministic choice.  Reals      *)
(* drawn from a normal distribution are drawn from small sets.             *)
(***************************************************************************)
EXTENDS Integers, Sequences, FiniteSets, TLC

(***************************************************************************)
(* Configuration (src/pyneat/config.py)                                    *)
(***************************************************************************)
MIN_NODE_COUNT == 10
ELITISM == 2
\* CUTOFF_PCT = 0.2 = 1 / CUTOFF_PCT_INV
CUTOFF_PCT_INV == 5
MIN_FITNESS_RANGE == 1
MIN_SPECIES_SIZE == 2
\* COMPATIBILITY_THRESHOLD = 3.0, NODE_DIST_COEFF = 0.5, NODE_DISJOINT_COEFF = 1.0,
\* EDGE_DIST_COEFF = 0.5, EDGE_DISJOINT_COEFF = 1.0, each multiplied by two
COMPATIBILITY_THRESHOLD_X2 == 6
NODE_DIST_COEFF_X2 == 1
NODE_DISJOINT_COEFF_X2 == 2
EDGE_DIST_COEFF_X2 == 1
EDGE_DISJOINT_COEFF_X2 == 2

(***************************************************************************)
(* Bounds of the model and the sets the random draws are taken from        *)
(***************************************************************************)
\* number of random mutation events (a structural mutation that fires, a
\* node or an edge whose properties are changed) in one run
MaxMutations == 2
\* bounds of the inputs of next_partition_sizes in SpecSizes
MaxSpecies == 3
MaxMembers == 3
\* significant bits of a float in SpecDist
MantissaBits == 3

\* args of run: population_size, max_generations, input_size, output_size,
\* stop_threshold
PopulationSizes == {2, 3}
MaxGenerationsVals == {0, 1}
VARIABLE output_size      \* args.output_size
input_keys == {-1}
output_keys == 0 .. (output_size - 1)
StopThreshold == 1
FitnessVals == {0, 1}
\* values of np.random.normal: the weight of an edge, the bias a node is
\* created with, the bias a node gets by Node.mutate_
WeightVals == {0, 6}
InitBiasVals == {0}
BiasVals == {0, 2}
\* values of random.choice(ACTIVATIONS)
ActivationVals == {"sigmoid", "tanh"}

Null == [key |-> 0]
EmptyFun == [x \in {} |-> 0]

(***************************************************************************)
(* Helpers                                                                 *)
(***************************************************************************)
Abs(x) == IF x < 0 THEN -x ELSE x
Max(a, b) == IF a >= b THEN a ELSE b
Range(s) == {s[i] : i \in DOMAIN s}

RECURSIVE SumOver(_, _)
SumOver(S, f) ==
    IF S = {} THEN 0
    ELSE LET x == CHOOSE x \in S : TRUE IN f[x] + SumOver(S \ {x}, f)

RECURSIVE SeqSum(_)
SeqSum(s) == IF s = <<>> THEN 0 ELSE Head(s) + SeqSum(Tail(s))

\* all the functions f on S with f[k] \in opts[k]
RECURSIVE FunProduct(_, _)
FunProduct(S, opts) ==
    IF S = {} THEN {EmptyFun}
    ELSE LET k == CHOOSE k \in S : TRUE
         IN { (k :> v) @@ f : v \in opts[k], f \in FunProduct(S \ {k}, opts) }

\* the function f without the keys of D
Without(f, D) == [k \in (DOMAIN f) \ D |-> f[k]]

(***************************************************************************)
(* Node (src/pyneat/node.py) and Edge (src/pyneat/edge.py)                 *)
(***************************************************************************)
\* Node(key): bias drawn at random, the other attributes at their defaults
Node(k, b) ==
    [key |-> k, bias |-> b, response |-> 1, activation |-> "sigmoid",
     aggregation |-> "sum"]

\* Edge(u, v, weight): uv is the key the edge is stored under
Edge(w) == [weight |-> w, active |-> TRUE]

\* Node.dist with == for != in the test of the activation
node_dist_equal_activation(n1, n2) ==
    NODE_DIST_COEFF_X2 *
        (Abs(n1.bias - n2.bias)
         + (IF n1.activation = n2.activation THEN 1 ELSE 0)
         + (IF n1.aggregation # n2.aggregation THEN 1 ELSE 0))

\* Node.dist, multiplied by two
node_dist(n1, n2) ==
    NODE_DIST_COEFF_X2 *
        (Abs(n1.bias - n2.bias)
         + (IF n1.activation # n2.activation THEN 1 ELSE 0)
         + (IF n1.aggregation # n2.aggregation THEN 1 ELSE 0))

\* Edge.dist, multiplied by two
edge_dist(e1, e2) ==
    (Abs(e1.weight - e2.weight) + (IF e1.active # e2.active THEN 1 ELSE 0))
        * EDGE_DIST_COEFF_X2

\* the outcomes of Node.mutate_ : the bias perturbed or drawn again or kept,
\* the activation drawn again or kept
node_mutate(n) ==
    { [n EXCEPT !.bias = b, !.activation = a] :
        b \in BiasVals \cup {n.bias}, a \in ActivationVals \cup {n.activation} }

\* the outcomes of Edge.mutate_ : the weight perturbed or drawn again or
\* kept, the active flag drawn again or kept
edge_mutate(e) ==
    { [e EXCEPT !.weight = w, !.active = a] :
        w \in WeightVals \cup {e.weight}, a \in BOOLEAN }

(***************************************************************************)
(* creates_cycle (src/pyneat/utils.py)                                     *)
(***************************************************************************)
\* graph[i]: the adjacency list of i
Adjacent(edges, i) == {uv[2] : uv \in {e \in edges : e[1] = i}}

RECURSIVE SetToSeq(_)
SetToSeq(S) ==
    IF S = {} THEN <<>>
    ELSE LET x == CHOOSE x \in S : \A y \in S : x <= y
         IN <<x>> \o SetToSeq(S \ {x})

\* the while loop over the queue
RECURSIVE CycleSearch(_, _, _, _)
CycleSearch(edges, queue, seen, u) ==
    IF queue = <<>> THEN FALSE
    ELSE LET curr == Head(queue)
             seen2 == seen \cup {curr}
         IN IF curr = u THEN TRUE
            ELSE CycleSearch(edges,
                             Tail(queue) \o SetToSeq(Adjacent(edges, curr) \ seen2),
                             seen2, u)

\* creates_cycle without the search: only the self loop is a cycle
creates_cycle_self_loop_only(edges, u, v) == u = v

\* creates_cycle that searches from u for v
creates_cycle_from_u(edges, u, v) ==
    IF u = v THEN TRUE
    ELSE IF Adjacent(edges, u) = {} THEN FALSE
    ELSE CycleSearch(edges, <<u>>, {}, v)

creates_cycle(edges, u, v) ==
    IF u = v THEN TRUE
    ELSE IF Adjacent(edges, v) = {} THEN FALSE
    ELSE CycleSearch(edges, <<v>>, {}, u)

(***************************************************************************)
(* Genome (src/pyneat/genome.py)                                           *)
(***************************************************************************)
\* Genome.__init__ : one node per output key, one edge per (input, output);
\* bias[k] and weight[uv] are the values drawn by Node() and Edge()
Genome(key, bias, weight) ==
    [key |-> key,
     nodes |-> [k \in output_keys |-> Node(k, bias[k])],
     edges |-> [uv \in input_keys \X output_keys |-> Edge(weight[uv])]]

\* a distance is the rational num / den, den > 0, and stands for twice the
\* distance the code computes
RatLess(a, b) == a.num * b.den < b.num * a.den
RatEq(a, b) == a.num * b.den = b.num * a.den
RatAdd(a, b) == [num |-> a.num * b.den + b.num * a.den, den |-> a.den * b.den]

\* the disjoint count without the increment in the loop over self
Disjoint_other_only(selfmap, othermap) ==
    Cardinality((DOMAIN othermap) \ (DOMAIN selfmap))

\* the number of keys of other that self does not have, plus the number of
\* keys of self that other does not have
Disjoint(selfmap, othermap) ==
    Cardinality((DOMAIN othermap) \ (DOMAIN selfmap))
    + Cardinality((DOMAIN selfmap) \ (DOMAIN othermap))

nodes_dist(self, other) ==
    IF DOMAIN self.nodes # {} \/ DOMAIN other.nodes # {}
    THEN LET matched == (DOMAIN self.nodes) \cap (DOMAIN other.nodes)
             d == SumOver(matched,
                          [k \in matched |-> node_dist(self.nodes[k], other.nodes[k])])
             max_nodes == Max(Cardinality(DOMAIN self.nodes),
                              Cardinality(DOMAIN other.nodes))
         IN [num |-> d + NODE_DISJOINT_COEFF_X2 * Disjoint(self.nodes, other.nodes),
             den |-> max_nodes]
    ELSE [num |-> 0, den |-> 1]

edges_dist(self, other) ==
    IF DOMAIN self.edges # {} \/ DOMAIN other.edges # {}
    THEN LET matched == (DOMAIN self.edges) \cap (DOMAIN other.edges)
             d == SumOver(matched,
                          [k \in matched |-> edge_dist(self.edges[k], other.edges[k])])
             max_edges == Max(Cardinality(DOMAIN self.edges),
                              Cardinality(DOMAIN other.edges))
         IN [num |-> d + EDGE_DISJOINT_COEFF_X2 * Disjoint(self.edges, other.edges),
             den |-> max_edges]
    ELSE [num |-> 0, den |-> 1]

dist(self, other) == RatAdd(nodes_dist(self, other), edges_dist(self, other))

(***************************************************************************)
(* Genome.dist as the floats compute it.  A float is a binary number of    *)
(* MantissaBits significant bits and every operation rounds its exact      *)
(* result to the nearest float, a tie to the even mantissa.  The operators *)
(* above are the same computation without the rounding; they agree with    *)
(* the floats wherever every intermediate value is a float, which small    *)
(* whole weights and biases make it.  Here a genome keeps edges as the     *)
(* sequence of its dict items, in insertion order: <<[uv, edge], ...>>.    *)
(***************************************************************************)
Rat(n) == [num |-> n, den |-> 1]
RatDiv(a, n) == [num |-> a.num, den |-> a.den * n]
RatScale(a, n) == [num |-> a.num * n, den |-> a.den]

RECURSIVE Pow2(_)
Pow2(n) == IF n = 0 THEN 1 ELSE 2 * Pow2(n - 1)

ExpRange == -8 .. 8

\* 2^e <= r
AtLeastPow2(r, e) ==
    IF e >= 0 THEN r.den * Pow2(e) <= r.num ELSE r.den <= r.num * Pow2(-e)

\* n / d rounded to a whole number, a half to the even neighbour
RoundHalfEven(n, d) ==
    LET f == n \div d
        r2 == 2 * (n - f * d)
    IN IF r2 > d \/ (r2 = d /\ f % 2 = 1) THEN f + 1 ELSE f

\* r >= 0 rounded to the nearest float
FloatRound(r) ==
    IF r.num = 0 THEN r
    ELSE LET e == CHOOSE e \in ExpRange : AtLeastPow2(r, e) /\ ~AtLeastPow2(r, e + 1)
             s == e - MantissaBits + 1
         IN IF s >= 0
            THEN [num |-> RoundHalfEven(r.num, r.den * Pow2(s)) * Pow2(s), den |-> 1]
            ELSE [num |-> RoundHalfEven(r.num * Pow2(-s), r.den), den |-> Pow2(-s)]

FloatAdd(a, b) == FloatRound(RatAdd(a, b))

\* Node.dist in floats, multiplied by two
float_node_dist(n1, n2) ==
    LET d0 == FloatRound(Rat(Abs(n1.bias - n2.bias)))
        d1 == IF n1.activation # n2.activation THEN FloatAdd(d0, Rat(1)) ELSE d0
        d2 == IF n1.aggregation # n2.aggregation THEN FloatAdd(d1, Rat(1)) ELSE d1
    IN FloatRound(RatScale(d2, NODE_DIST_COEFF_X2))

\* Edge.dist in floats, multiplied by two
float_edge_dist(e1, e2) ==
    LET d == FloatAdd(FloatRound(Rat(Abs(e1.weight - e2.weight))),
                      Rat(IF e1.active # e2.active THEN 1 ELSE 0))
    IN FloatRound(RatScale(d, EDGE_DIST_COEFF_X2))

\* the keys of S in ascending order: the order of the dict nodes, whose
\* keys are the output keys followed by values of the rising node_count
RECURSIVE Ascending(_)
Ascending(S) ==
    IF S = {} THEN <<>>
    ELSE LET m == CHOOSE m \in S : \A x \in S : m <= x
         IN <<m>> \o Ascending(S \ {m})

\* the dict that the items make
EdgeMap(items) ==
    [uv \in {items[i].uv : i \in DOMAIN items} |->
        (CHOOSE it \in Range(items) : it.uv = uv).edge]

\* d += n1.dist(n2) over self.nodes.items(), for the keys other has too
RECURSIVE float_nodes_sum(_, _, _, _)
float_nodes_sum(keys, snodes, onodes, d) ==
    IF keys = <<>> THEN d
    ELSE LET k == Head(keys)
         IN float_nodes_sum(Tail(keys), snodes, onodes,
                IF k \in DOMAIN onodes
                THEN FloatAdd(d, float_node_dist(snodes[k], onodes[k]))
                ELSE d)

float_nodes_dist(self, other) ==
    IF DOMAIN self.nodes # {} \/ DOMAIN other.nodes # {}
    THEN LET d == float_nodes_sum(Ascending(DOMAIN self.nodes),
                                  self.nodes, other.nodes, Rat(0))
             max_nodes == Max(Cardinality(DOMAIN self.nodes),
                              Cardinality(DOMAIN other.nodes))
             disjoint_nodes == Disjoint(self.nodes, other.nodes)
         IN FloatRound(RatDiv(
                FloatAdd(d, FloatRound(Rat(NODE_DISJOINT_COEFF_X2 * disjoint_nodes))),
                max_nodes))
    ELSE Rat(0)

\* d += e1.dist(e2) over self.edges.items(), for the keys other has too
RECURSIVE float_edges_sum(_, _, _)
float_edges_sum(items, oedges, d) ==
    IF items = <<>> THEN d
    ELSE LET it == Head(items)
         IN float_edges_sum(Tail(items), oedges,
                IF it.uv \in DOMAIN oedges
                THEN FloatAdd(d, float_edge_dist(it.edge, oedges[it.uv]))
                ELSE d)

float_edges_dist(self, other) ==
    IF self.edges # <<>> \/ other.edges # <<>>
    THEN LET d == float_edges_sum(self.edges, EdgeMap(other.edges), Rat(0))
             max_edges == Max(Len(self.edges), Len(other.edges))
             disjoint_edges == Disjoint(EdgeMap(self.edges), EdgeMap(other.edges))
         IN FloatRound(RatDiv(
                FloatAdd(d, FloatRound(Rat(EDGE_DISJOINT_COEFF_X2 * disjoint_edges))),
                max_edges))
    ELSE Rat(0)

float_dist(self, other) ==
    FloatAdd(float_nodes_dist(self, other), float_edges_dist(self, other))

\* the genome with its edges as a dict without an order
Unordered(g) == [key |-> g.key, nodes |-> g.nodes, edges |-> EdgeMap(g.edges)]


\* crossover (src/pyneat/crossover.py): every attribute of attrs is taken
\* from obj1 or from obj2, the others stay those of obj_new
crossover(obj1, obj2, obj_new, attrs) ==
    { [a \in DOMAIN obj_new |-> IF a \in attrs THEN pick[a] ELSE obj_new[a]] :
        pick \in FunProduct(attrs, [a \in attrs |-> {obj1[a], obj2[a]}]) }

\* Genome.crossover_edges : the edge maps the child can get.  child_edges
\* are the edges the child has from its constructor.
crossover_edges(self, other, child_edges) ==
    LET keys == (DOMAIN child_edges) \cup (DOMAIN self.edges)
        opts == [key \in keys |->
                    IF key \notin DOMAIN self.edges THEN {child_edges[key]}
                    ELSE IF key \notin DOMAIN other.edges THEN {self.edges[key]}
                    ELSE crossover(self.edges[key], other.edges[key],
                                   Edge(0), {"weight", "active"})]
    IN FunProduct(keys, opts)

\* the keys of self.nodes that other.nodes has too
MatchedNodes(self, other) == (DOMAIN self.nodes) \cap (DOMAIN other.nodes)

\* the value next(Genome.node_count) gives for the matched key: the keys of
\* a node map are iterated in ascending order
FreshKey(self, other, key, nc) ==
    nc + Cardinality({m \in MatchedNodes(self, other) : m < key})

\* crossover_nodes that copies the node of self for a matched key as
\* well, without a new Node
crossover_nodes_copying_self(self, other, child_nodes, nc) ==
    LET keys == (DOMAIN child_nodes) \cup (DOMAIN self.nodes)
        opts == [key \in keys |->
                    IF key \notin DOMAIN self.nodes THEN {child_nodes[key]}
                    ELSE {self.nodes[key]}]
    IN FunProduct(keys, opts)

\* Genome.crossover_nodes : the node maps the child can get.  nc is the
\* value of Genome.node_count before the call.
crossover_nodes(self, other, child_nodes, nc) ==
    LET keys == (DOMAIN child_nodes) \cup (DOMAIN self.nodes)
        opts == [key \in keys |->
                    IF key \notin DOMAIN self.nodes THEN {child_nodes[key]}
                    ELSE IF key \notin DOMAIN other.nodes THEN {self.nodes[key]}
                    ELSE crossover(self.nodes[key], other.nodes[key],
                                   Node(FreshKey(self, other, key, nc), 0),
                                   {"bias", "response", "activation", "aggregation"})]
    IN FunProduct(keys, opts)

\* _mutate_add_node_ that leaves the split edge as it is
mutate_add_node_keeping_active(g, uv, k, b) ==
    LET edge_u_to_new == <<uv[1], k>> :> Edge(1)
        edge_new_to_v == <<k, uv[2]>> :> Edge(g.edges[uv].weight)
    IN [g EXCEPT !.nodes = (k :> Node(k, b)) @@ g.nodes,
                 !.edges = edge_new_to_v @@ edge_u_to_new @@ g.edges]

\* _mutate_add_node_ that takes MIN_NODE_COUNT, not the next value of the
\* counter, as the key of the new node
mutate_add_node_first_key(g, uv, k, b) ==
    LET split == [g.edges EXCEPT ![uv].active = FALSE]
        edge_u_to_new == <<uv[1], MIN_NODE_COUNT>> :> Edge(1)
        edge_new_to_v == <<MIN_NODE_COUNT, uv[2]>> :> Edge(g.edges[uv].weight)
    IN [g EXCEPT !.nodes = (MIN_NODE_COUNT :> Node(MIN_NODE_COUNT, b)) @@ g.nodes,
                 !.edges = edge_new_to_v @@ edge_u_to_new @@ split]

\* Genome._mutate_add_node_ once it fires and the edge map is not empty:
\* uv is the edge to split, k = next(Genome.node_count), b the bias drawn
\* for the new node
mutate_add_node(g, uv, k, b) ==
    LET split == [g.edges EXCEPT ![uv].active = FALSE]
        edge_u_to_new == <<uv[1], k>> :> Edge(1)
        edge_new_to_v == <<k, uv[2]>> :> Edge(g.edges[uv].weight)
    IN [g EXCEPT !.nodes = (k :> Node(k, b)) @@ g.nodes,
                 !.edges = edge_new_to_v @@ edge_u_to_new @@ split]

\* available_nodes without the filter on output_keys
available_nodes_with_outputs(g) == DOMAIN g.nodes

\* the nodes _mutate_del_node_ may delete
available_nodes(g) == (DOMAIN g.nodes) \ output_keys

\* _mutate_del_node_ without the loop that deletes the edges of del_key
mutate_del_node_keeping_edges(g, del_key) ==
    [g EXCEPT !.nodes = Without(g.nodes, {del_key})]

\* Genome._mutate_del_node_ once it fires on del_key
mutate_del_node(g, del_key) ==
    LET edges_to_delete == {k \in DOMAIN g.edges : del_key = k[1] \/ del_key = k[2]}
    IN [g EXCEPT !.edges = Without(g.edges, edges_to_delete),
                 !.nodes = Without(g.nodes, {del_key})]

\* the tests of _mutate_add_edge_ without the one on cycles
add_edge_stop_without_cycle_test(g, in_node, out_node) ==
    \/ <<in_node, out_node>> \in DOMAIN g.edges
    \/ (in_node \in output_keys /\ out_node \in output_keys)

\* the tests of _mutate_add_edge_ without the one on two output keys
add_edge_stop_without_output_test(g, in_node, out_node) ==
    \/ <<in_node, out_node>> \in DOMAIN g.edges
    \/ creates_cycle(DOMAIN g.edges, in_node, out_node)

\* the three tests of _mutate_add_edge_ that stop the edge formation
add_edge_stop(g, in_node, out_node) ==
    \/ <<in_node, out_node>> \in DOMAIN g.edges
    \/ (in_node \in output_keys /\ out_node \in output_keys)
    \/ creates_cycle(DOMAIN g.edges, in_node, out_node)

\* Genome._mutate_add_edge_ once it fires with the two nodes chosen; w is
\* the weight drawn for the new edge
mutate_add_edge(g, in_node, out_node, w) ==
    IF add_edge_stop(g, in_node, out_node) THEN g
    ELSE [g EXCEPT !.edges = (<<in_node, out_node>> :> Edge(w)) @@ g.edges]

\* Genome._mutate_del_edge_ once it fires on key
mutate_del_edge(g, key) == [g EXCEPT !.edges = Without(g.edges, {key})]

\* the number of keys on which two maps with the same keys differ
Changed(f, h) == Cardinality({k \in DOMAIN f : f[k] # h[k]})

\* Genome._mutate_node_properties / _mutate_edge_properties : the maps that
\* result when every element mutates, at most `budget` of them changing
mutate_properties(map, outcomes, budget) ==
    { m \in FunProduct(DOMAIN map, outcomes) : Changed(map, m) <= budget }


(***************************************************************************)
(* Partition and Partitions (src/pyneat/partitions.py).  Partitions is the *)
(* sequence of its partitions in the insertion order of pid_to_partition.  *)
(***************************************************************************)
\* Partition.__init__ that leaves members at its default []
Partition_default_members(key, members, representative) ==
    [key |-> key, members |-> <<>>, representative |-> representative]

\* Partition.__init__
Partition(key, members, representative) ==
    [key |-> key, members |-> members, representative |-> representative]

\* find_representative with max() for min()
find_representative_farthest(representative, gids, pop) ==
    { g \in gids : \A h \in gids :
        ~RatLess(dist(representative, pop[g]), dist(representative, pop[h])) }

\* Partition.find_representative : the gids min() may return; the order in
\* which the set gids is iterated decides between equal distances
find_representative(representative, gids, pop) ==
    { g \in gids : \A h \in gids :
        ~RatLess(dist(representative, pop[h]), dist(representative, pop[g])) }

\* a pid that does not take next(partition_count) when pid is None
NewPid_not_counted(pid, pc_next) == IF pid = 0 THEN 1 ELSE pid

\* the key a new partition is stored under: pid, or next(partition_count)
\* when pid is None (0)
NewPid(pid, pc_next) == IF pid = 0 THEN pc_next ELSE pid

\* Partitions.new_partition : pid_to_partition[pid] = Partition(...)
new_partition(parts, pid, members, representative) ==
    LET p == Partition(pid, members, representative)
    IN IF \E i \in DOMAIN parts : parts[i].key = pid
       THEN [i \in DOMAIN parts |-> IF parts[i].key = pid THEN p ELSE parts[i]]
       ELSE Append(parts, p)

\* d <= COMPATIBILITY_THRESHOLD
Compatible_at_threshold(d) ==
    ~RatLess([num |-> COMPATIBILITY_THRESHOLD_X2, den |-> 1], d)

\* d < COMPATIBILITY_THRESHOLD
Compatible(d) == RatLess(d, [num |-> COMPATIBILITY_THRESHOLD_X2, den |-> 1])

\* Partitions.closest_representative : the pid of the first partition, in
\* insertion order, among those at the least distance below the threshold;
\* 0 stands for None
closest_representative(parts, genome) ==
    LET d(i) == dist(parts[i].representative, genome)
        candidates == {i \in DOMAIN parts : Compatible(d(i))}
    IN IF candidates # {}
       THEN LET i == CHOOSE i \in candidates :
                        /\ \A j \in candidates : ~RatLess(d(j), d(i))
                        /\ \A j \in candidates : j < i => RatLess(d(i), d(j))
            IN parts[i].key
       ELSE 0

MinOf(S) == CHOOSE x \in S : \A y \in S : x <= y
MaxOf(S) == CHOOSE x \in S : \A y \in S : x >= y

\* adjust_fitnesses with af = msf / fitness_range
adjust_fitnesses_without_min(parts, fit) ==
    LET vals == {fit[g] : g \in DOMAIN fit}
        fitness_range == Max(MIN_FITNESS_RANGE, MaxOf(vals) - MinOf(vals))
    IN [pid \in {parts[i].key : i \in DOMAIN parts} |->
          LET p == parts[CHOOSE i \in DOMAIN parts : parts[i].key = pid]
              total == SeqSum([j \in DOMAIN p.members |-> fit[p.members[j]]])
              n == Len(p.members)
          IN [num |-> total, den |-> n * fitness_range]]

\* Partitions.adjust_fitnesses : for every pid the rational
\* (mean of the members' fitnesses - min_fitness) / fitness_range
adjust_fitnesses(parts, fit) ==
    LET vals == {fit[g] : g \in DOMAIN fit}
        min_fitness == MinOf(vals)
        max_fitness == MaxOf(vals)
        fitness_range == Max(MIN_FITNESS_RANGE, max_fitness - min_fitness)
    IN [pid \in {parts[i].key : i \in DOMAIN parts} |->
          LET p == parts[CHOOSE i \in DOMAIN parts : parts[i].key = pid]
              total == SeqSum([j \in DOMAIN p.members |-> fit[p.members[j]]])
              n == Len(p.members)
          IN [num |-> total - n * min_fitness, den |-> n * fitness_range]]

\* a float of either sign rounded to the nearest float
FloatRoundSigned(r) ==
    IF r.num < 0
    THEN LET m == FloatRound([num |-> -r.num, den |-> r.den])
         IN [num |-> -m.num, den |-> m.den]
    ELSE FloatRound(r)

RatSub(a, b) == [num |-> a.num * b.den - b.num * a.den, den |-> a.den * b.den]
RatQuot(a, b) == [num |-> a.num * b.den, den |-> a.den * b.num]

\* the sum np.mean makes of a short list: one addition after the other
RECURSIVE float_sum(_, _)
float_sum(s, acc) ==
    IF s = <<>> THEN acc ELSE float_sum(Tail(s), FloatAdd(acc, Rat(Head(s))))

\* np.mean([fitnesses[m] for m in partition.members])
float_mean(members, fit) ==
    FloatRound(RatDiv(float_sum([j \in DOMAIN members |-> fit[members[j]]], Rat(0)),
                      Len(members)))

\* Partitions.adjust_fitnesses as the floats compute it, for fitnesses >= 0
\* that are floats
float_adjust_fitnesses(parts, fit) ==
    LET vals == {fit[g] : g \in DOMAIN fit}
        min_fitness == MinOf(vals)
        max_fitness == MaxOf(vals)
        spread == FloatRound(Rat(max_fitness - min_fitness))
        fitness_range == IF RatLess(spread, Rat(MIN_FITNESS_RANGE))
                         THEN Rat(MIN_FITNESS_RANGE) ELSE spread
    IN [pid \in {parts[i].key : i \in DOMAIN parts} |->
          LET p == parts[CHOOSE i \in DOMAIN parts : parts[i].key = pid]
              msf == float_mean(p.members, fit)
          IN FloatRoundSigned(RatQuot(FloatRoundSigned(RatSub(msf, Rat(min_fitness))),
                                      fitness_range))]

RECURSIVE ProductOver(_, _)
ProductOver(S, f) ==
    IF S = {} THEN 1
    ELSE LET x == CHOOSE x \in S : TRUE IN f[x] * ProductOver(S \ {x}, f)

\* floor(n / d) for d > 0
Floor(n, d) == IF n >= 0 THEN n \div d ELSE -((-n + d - 1) \div d)

\* int(round(n / d)) for d > 0.  Python rounds an exact half to the even
\* neighbour; when n / d stands for a float that carries a rounding error
\* (exact = FALSE) a half may be rounded either way.
Round(n, d, exact) ==
    LET f == Floor(n, d)
        r2 == 2 * (n - f * d)
    IN IF r2 > d THEN {f + 1}
       ELSE IF r2 < d THEN {f}
       ELSE IF exact THEN {IF f % 2 = 0 THEN f ELSE f + 1}
       ELSE {f, f + 1}

\* the first loop of next_partition_sizes: the sizes of one species after
\* it moved half-way from prev towards its share s of pop_size
Step2Sizes(af, af_sum_num, common, pid, prev, pop_size) ==
    LET share == [num |-> af[pid].num * (common \div af[pid].den) * pop_size,
                  den |-> af_sum_num]
        \* s is the float af / af_sum * pop_size, not the integer MIN_SPECIES_SIZE
        float == af_sum_num > 0 /\ share.num >= MIN_SPECIES_SIZE * share.den
        s == IF float THEN share ELSE [num |-> MIN_SPECIES_SIZE, den |-> 1]
        \* d = (s - prev) * 0.5
        d == [num |-> s.num - prev * s.den, den |-> 2 * s.den]
        moved(c) == IF Abs(c) > 0 THEN {prev + c}
                    ELSE IF d.num > 0 THEN {prev + 1}
                    ELSE IF d.num < 0 THEN {prev - 1}
                    ELSE IF float THEN {prev - 1, prev, prev + 1}
                    ELSE {prev}
    IN UNION {moved(c) : c \in Round(d.num, d.den, ~float)}

\* the size without the normalizer
Renormalised_without_normalizer(size, pop_size, total) == {size}

\* the size returned for one species: max(MIN_SPECIES_SIZE,
\* int(round(size * normalizer))), normalizer = pop_size / total
Renormalised(size, pop_size, total) == Round(size * pop_size, total, FALSE)

\* the size without max(MIN_SPECIES_SIZE, .)
FinalSize_without_max(rounded) == rounded

FinalSize(rounded) == Max(MIN_SPECIES_SIZE, rounded)

\* Partitions.next_partition_sizes : the results it can give, each with the
\* sizes of the first loop (step2), the rounded renormalised sizes
\* (rounded) and the sizes returned (sizes)
next_partition_sizes(parts, af, pop_size) ==
    LET pids == DOMAIN af
        previous_sizes == [pid \in pids |->
            Len(parts[CHOOSE i \in DOMAIN parts : parts[i].key = pid].members)]
        common == ProductOver(pids, [pid \in pids |-> af[pid].den])
        af_sum_num == SumOver(pids, [pid \in pids |->
                                       af[pid].num * (common \div af[pid].den)])
        step2s == FunProduct(pids, [pid \in pids |->
                     Step2Sizes(af, af_sum_num, common, pid,
                                previous_sizes[pid], pop_size)])
    IN UNION { { [step2 |-> s2, rounded |-> r,
                  sizes |-> [pid \in pids |-> FinalSize(r[pid])]] :
                 r \in FunProduct(pids, [pid \in pids |->
                          Renormalised(s2[pid], pop_size, SumOver(pids, s2))]) } :
               s2 \in step2s }

(***************************************************************************)
(* next_generation (src/pyneat/neat.py)                                    *)
(***************************************************************************)
\* sorted(members, key = fitness, reverse = True): a stable sort
RECURSIVE SortedDesc(_, _)
SortedDesc(s, fit) ==
    IF s = <<>> THEN <<>>
    ELSE LET i == CHOOSE i \in DOMAIN s :
                     /\ \A j \in DOMAIN s : fit[s[j]] <= fit[s[i]]
                     /\ \A j \in DOMAIN s : j < i => fit[s[j]] < fit[s[i]]
         IN <<s[i]>> \o SortedDesc(SubSeq(s, 1, i - 1) \o SubSeq(s, i + 1, Len(s)), fit)

\* s[:n]
Prefix(s, n) == SubSeq(s, 1, IF n < Len(s) THEN n ELSE Len(s))

\* every member of the species copied as an elite
Elites_whole_species(old) == old

\* old_members[-ELITISM:]
Elites_from_the_end(old) ==
    SubSeq(old, IF Len(old) > ELITISM THEN Len(old) - ELITISM + 1 ELSE 1, Len(old))

\* old_members[:ELITISM]
Elites(old) == Prefix(old, ELITISM)

\* max(int(math.ceil(CUTOFF_PCT * len(old_members))), 2)
Cutoff(n) == Max((n + CUTOFF_PCT_INV - 1) \div CUTOFF_PCT_INV, 2)


(***************************************************************************)
(* The state of run (src/pyneat/neat.py)                                   *)
(***************************************************************************)
VARIABLES
    pc,                   \* the place run has reached
    max_generations,      \* args.max_generations
    dist_call,            \* a call of Genome.dist: its arguments and what it returns
    cycle_call,           \* a call of creates_cycle: its arguments and what it returns
    net_call,             \* a call of make_network and forward: its arguments and what it returns
    partition_adjusted_fitnesses, \* next_generation: what adjust_fitnesses returned
    gid_to_genome,        \* population.gid_to_genome
    gid_to_ancestors,     \* population.gid_to_ancestors
    partitions,           \* partitions
    node_count,           \* the next value of Genome.node_count
    global_count,         \* the next value of Population.global_count
    partition_count,      \* the next value of Partitions.partition_count
    gen,                  \* gen
    fitnesses,            \* fitnesses
    best,                 \* gid of the genome run hands to visualize
    new_gid_to_genome,    \* next_generation: new_population.gid_to_genome
    new_gid_to_ancestors, \* next_generation: new_population.gid_to_ancestors
    sizes,                \* next_generation: sizes, with the intermediate sizes
    sp,                   \* next_generation: index of the species in the loop
    size,                 \* next_generation: size, the quota left
    old_members,          \* next_generation: old_members
    parents,              \* next_generation: (gid1, gid2)
    child,                \* new_child: child
    unpartitioned,        \* partition: unpartitioned
    new_partitions,       \* partition: new_partitions
    init_idx,             \* partition: index in initial_partitions
    mutations             \* number of mutation events so far

vars == <<pc, output_size, net_call, partition_adjusted_fitnesses,
          max_generations, dist_call, cycle_call, gid_to_genome, gid_to_ancestors, partitions, node_count,
          global_count, partition_count, gen, fitnesses, best,
          new_gid_to_genome, new_gid_to_ancestors, sizes, sp, size,
          old_members, parents, child, unpartitioned, new_partitions,
          init_idx, mutations>>

NoSizes == [step2 |-> EmptyFun, rounded |-> EmptyFun, sizes |-> EmptyFun]

\* the variables of next_generation and new_child while they do not run
NoLocals ==
    /\ partition_adjusted_fitnesses = EmptyFun
    /\ new_gid_to_genome = EmptyFun
    /\ new_gid_to_ancestors = EmptyFun
    /\ sizes = NoSizes
    /\ sp = 0
    /\ size = 0
    /\ old_members = <<>>
    /\ parents = <<>>
    /\ child = Null

\* Population.initial_population : population_size genomes with the gids
\* 1 .. population_size, each with its own random bias and weights
initial_population(n, bias, weight) ==
    [gid \in 1 .. n |-> Genome(gid, bias[gid], weight[gid])]

\* run up to the call population.partition(initial_partitions=Partitions())
Init ==
    /\ max_generations \in MaxGenerationsVals
    /\ output_size = 1
    /\ dist_call = Null
    /\ cycle_call = Null
    /\ \E n \in PopulationSizes :
         \E bias \in [1 .. n -> [output_keys -> InitBiasVals]],
            weight \in [1 .. n -> [input_keys \X output_keys -> WeightVals]] :
            /\ gid_to_genome = initial_population(n, bias, weight)
            /\ gid_to_ancestors = [gid \in 1 .. n |-> <<>>]
            /\ global_count = n + 1
            /\ unpartitioned = 1 .. n
    /\ node_count = MIN_NODE_COUNT
    /\ partition_count = 1
    /\ partitions = <<>>
    /\ new_partitions = <<>>
    /\ init_idx = 1
    /\ pc = "partition"
    /\ net_call = Null
    /\ gen = 0
    /\ fitnesses = EmptyFun
    /\ best = 0
    /\ mutations = 0
    /\ NoLocals

(***************************************************************************)
(* Population.partition (src/pyneat/population.py)                         *)
(***************************************************************************)
\* one round of the first loop: the species initial_partitions[init_idx]
\* gets its new representative
PartitionRepresentative ==
    /\ pc = "partition"
    /\ init_idx <= Len(partitions)
    /\ \E gid \in find_representative(partitions[init_idx].representative,
                                      unpartitioned, gid_to_genome) :
         LET new_rep == gid_to_genome[gid]
         IN /\ new_partitions' = new_partition(new_partitions,
                                               partitions[init_idx].key,
                                               <<new_rep.key>>, new_rep)
            /\ unpartitioned' = unpartitioned \ {new_rep.key}
    /\ init_idx' = init_idx + 1
    /\ UNCHANGED <<output_size, net_call, partition_adjusted_fitnesses,
                   max_generations, dist_call, cycle_call, pc, gid_to_genome, gid_to_ancestors, partitions, node_count,
                   global_count, partition_count, gen, fitnesses, best,
                   new_gid_to_genome, new_gid_to_ancestors, sizes, sp, size,
                   old_members, parents, child, mutations>>

\* one round of the second loop: a genome popped from unpartitioned joins
\* the closest species or opens a new one
PartitionGenome ==
    /\ pc = "partition"
    /\ init_idx > Len(partitions)
    /\ \E gid \in unpartitioned :
         LET g == gid_to_genome[gid]
             pid == closest_representative(new_partitions, g)
         IN /\ unpartitioned' = unpartitioned \ {gid}
            /\ IF pid = 0
               THEN /\ new_partitions' =
                         new_partition(new_partitions, NewPid(pid, partition_count),
                                       <<gid>>, g)
                    /\ partition_count' = partition_count + 1
               ELSE /\ new_partitions' =
                         [i \in DOMAIN new_partitions |->
                            IF new_partitions[i].key = pid
                            THEN [new_partitions[i] EXCEPT
                                    !.members = Append(@, gid)]
                            ELSE new_partitions[i]]
                    /\ UNCHANGED partition_count
    /\ UNCHANGED <<output_size, net_call, partition_adjusted_fitnesses,
                   max_generations, dist_call, cycle_call, pc, gid_to_genome, gid_to_ancestors, partitions, node_count,
                   global_count, gen, fitnesses, best,
                   new_gid_to_genome, new_gid_to_ancestors, sizes, sp, size,
                   old_members, parents, child, init_idx, mutations>>

\* return new_partitions, assigned to partitions by run
PartitionReturn ==
    /\ pc = "partition"
    /\ init_idx > Len(partitions)
    /\ unpartitioned = {}
    /\ partitions' = new_partitions
    /\ new_partitions' = <<>>
    /\ init_idx' = 1
    /\ pc' = "evaluate"
    /\ UNCHANGED <<output_size, net_call, partition_adjusted_fitnesses,
                   max_generations, dist_call, cycle_call, gid_to_genome, gid_to_ancestors, node_count,
                   global_count, partition_count, gen, fitnesses, best,
                   new_gid_to_genome, new_gid_to_ancestors, sizes, sp, size,
                   old_members, parents, child, unpartitioned, mutations>>

(***************************************************************************)
(* run: the evaluation and the stop test                                   *)
(***************************************************************************)
\* the stop test with > for >=
stop_reached_above(fit) ==
    SumOver(DOMAIN fit, fit) > StopThreshold * Cardinality(DOMAIN fit)

\* args.stop_criterion(values) >= args.stop_threshold with np.mean as the
\* criterion: sum / n >= threshold
stop_reached(fit) ==
    SumOver(DOMAIN fit, fit) >= StopThreshold * Cardinality(DOMAIN fit)

\* min for max: a gid of least fitness
BestGids_least(fit) == {g \in DOMAIN fit : \A h \in DOMAIN fit : fit[g] <= fit[h]}

\* max(list(fitnesses.items()), key = fitness): a gid of greatest fitness
BestGids(fit) == {g \in DOMAIN fit : \A h \in DOMAIN fit : fit[h] <= fit[g]}

Evaluate ==
    /\ pc = "evaluate"
    /\ gen' = gen + 1
    /\ \E fit \in [DOMAIN gid_to_genome -> FitnessVals] :
         /\ fitnesses' = fit
         /\ IF stop_reached(fit) \/ gen' > max_generations
            THEN /\ pc' = "done"
                 /\ \E gid \in BestGids(fit) : best' = gid
            ELSE /\ pc' = "next_generation"
                 /\ UNCHANGED best
    /\ UNCHANGED <<output_size, net_call, partition_adjusted_fitnesses,
                   max_generations, dist_call, cycle_call, gid_to_genome, gid_to_ancestors, partitions, node_count,
                   global_count, partition_count,
                   new_gid_to_genome, new_gid_to_ancestors, sizes, sp, size,
                   old_members, parents, child, unpartitioned, new_partitions,
                   init_idx, mutations>>


(***************************************************************************)
(* next_generation and Population.new_child                                *)
(***************************************************************************)
\* the first two statements of next_generation
NextGenerationBegin ==
    /\ pc = "next_generation"
    /\ \E out \in next_partition_sizes(partitions,
                                       adjust_fitnesses(partitions, fitnesses),
                                       Cardinality(DOMAIN gid_to_genome)) :
         sizes' = out
    /\ partition_adjusted_fitnesses' = adjust_fitnesses(partitions, fitnesses)
    /\ new_gid_to_genome' = EmptyFun
    /\ new_gid_to_ancestors' = EmptyFun
    /\ sp' = 1
    /\ pc' = "species"
    /\ UNCHANGED <<output_size, net_call, max_generations, dist_call, cycle_call, gid_to_genome, gid_to_ancestors, partitions, node_count,
                   global_count, partition_count, gen, fitnesses, best, size,
                   old_members, parents, child, unpartitioned, new_partitions,
                   init_idx, mutations>>

\* new_population.gid_to_genome[gid] = population.gid_to_genome[gid] for
\* every elite
CopyElites(new_pop, pop, elites) ==
    [gid \in Range(elites) |-> pop[gid]] @@ new_pop

\* the body of the loop over the species up to the while loop: the members
\* are sorted, the elites copied, the breeding pool cut
SpeciesBegin ==
    /\ pc = "species"
    /\ LET p == partitions[sp]
           sorted == SortedDesc(p.members, fitnesses)
       IN /\ new_gid_to_genome' = CopyElites(new_gid_to_genome, gid_to_genome,
                                             Elites(sorted))
          /\ size' = sizes.sizes[p.key] - Len(Elites(sorted))
          /\ old_members' = Prefix(sorted, Cutoff(Len(sorted)))
    /\ pc' = "children"
    /\ UNCHANGED <<output_size, net_call, partition_adjusted_fitnesses,
                   max_generations, dist_call, cycle_call, gid_to_genome, gid_to_ancestors, partitions, node_count,
                   global_count, partition_count, gen, fitnesses, best,
                   new_gid_to_ancestors, sizes, sp, parents, child,
                   unpartitioned, new_partitions, init_idx, mutations>>

\* Population.new_child up to child.mutate_() : the children the crossover
\* of the two parents can give.  gid = next(Population.global_count), nc the
\* value of Genome.node_count, bias and weight the values drawn by the
\* child's constructor.
new_child(p1, p2, f1, f2, gid, nc, bias, weight) ==
    LET fresh == Genome(gid, bias, weight)
        fitter == IF f1 < f2 THEN p2 ELSE p1
        other == IF f1 < f2 THEN p1 ELSE p2
    IN { [key |-> gid, nodes |-> n, edges |-> e] :
           e \in crossover_edges(fitter, other, fresh.edges),
           n \in crossover_nodes(fitter, other, fresh.nodes, nc) }

\* one round of the while loop over size: two parents are chosen and the
\* child is made by crossover
NewChild ==
    /\ pc = "children"
    /\ size > 0
    /\ size' = size - 1
    /\ \E gid1 \in Range(old_members), gid2 \in Range(old_members) :
         /\ parents' = <<gid1, gid2>>
         /\ \E bias \in [output_keys -> InitBiasVals],
               weight \in [input_keys \X output_keys -> WeightVals] :
              \E c \in new_child(gid_to_genome[gid1], gid_to_genome[gid2],
                                 fitnesses[gid1], fitnesses[gid2],
                                 global_count, node_count, bias, weight) :
                 child' = c
         /\ node_count' = node_count
                + Cardinality(MatchedNodes(gid_to_genome[gid1], gid_to_genome[gid2]))
    /\ global_count' = global_count + 1
    /\ pc' = "add_node"
    /\ UNCHANGED <<output_size, net_call, partition_adjusted_fitnesses,
                   max_generations, dist_call, cycle_call, gid_to_genome, gid_to_ancestors, partitions,
                   partition_count, gen, fitnesses, best,
                   new_gid_to_genome, new_gid_to_ancestors, sizes, sp,
                   old_members, unpartitioned, new_partitions,
                   init_idx, mutations>>

\* the quota of the species is used up: the next species, or the return
SpeciesEnd ==
    /\ pc = "children"
    /\ size <= 0
    /\ IF sp < Len(partitions)
       THEN /\ sp' = sp + 1
            /\ pc' = "species"
       ELSE /\ sp' = sp
            /\ pc' = "ng_return"
    /\ size' = 0
    /\ old_members' = <<>>
    /\ UNCHANGED <<output_size, net_call, partition_adjusted_fitnesses,
                   max_generations, dist_call, cycle_call, gid_to_genome, gid_to_ancestors, partitions, node_count,
                   global_count, partition_count, gen, fitnesses, best,
                   new_gid_to_genome, new_gid_to_ancestors, sizes,
                   parents, child, unpartitioned, new_partitions,
                   init_idx, mutations>>

\* what the six steps of Genome.mutate_ leave alone
MutateFrame ==
    UNCHANGED <<output_size, net_call, partition_adjusted_fitnesses,
                   max_generations, dist_call, cycle_call, gid_to_genome, gid_to_ancestors, partitions,
                global_count, partition_count, gen, fitnesses, best,
                new_gid_to_genome, new_gid_to_ancestors, sizes, sp, size,
                old_members, parents, unpartitioned, new_partitions, init_idx>>

\* the operator did not fire, or fired and found nothing to do
Skip(next) ==
    /\ pc' = next
    /\ UNCHANGED <<child, node_count, mutations>>

MutateAddNode ==
    /\ pc = "add_node"
    /\ \/ Skip("del_node")
       \/ /\ mutations < MaxMutations
          /\ \E uv \in DOMAIN child.edges, b \in InitBiasVals :
               child' = mutate_add_node(child, uv, node_count, b)
          /\ node_count' = node_count + 1
          /\ mutations' = mutations + 1
          /\ pc' = "del_node"
    /\ MutateFrame

MutateDelNode ==
    /\ pc = "del_node"
    /\ \/ Skip("add_edge")
       \/ /\ mutations < MaxMutations
          /\ \E del_key \in available_nodes(child) :
               child' = mutate_del_node(child, del_key)
          /\ mutations' = mutations + 1
          /\ pc' = "add_edge"
          /\ UNCHANGED node_count
    /\ MutateFrame

MutateAddEdge ==
    /\ pc = "add_edge"
    /\ \/ Skip("del_edge")
       \/ /\ mutations < MaxMutations
          /\ \E out_node \in DOMAIN child.nodes,
                in_node \in (DOMAIN child.nodes) \cup input_keys,
                w \in WeightVals :
               child' = mutate_add_edge(child, in_node, out_node, w)
          /\ mutations' = mutations + (IF child' # child THEN 1 ELSE 0)
          /\ pc' = "del_edge"
          /\ UNCHANGED node_count
    /\ MutateFrame

MutateDelEdge ==
    /\ pc = "del_edge"
    /\ \/ Skip("node_props")
       \/ /\ mutations < MaxMutations
          /\ \E key \in DOMAIN child.edges :
               child' = mutate_del_edge(child, key)
          /\ mutations' = mutations + 1
          /\ pc' = "node_props"
          /\ UNCHANGED node_count
    /\ MutateFrame

MutateNodeProperties ==
    /\ pc = "node_props"
    /\ \E m \in mutate_properties(child.nodes,
                                  [k \in DOMAIN child.nodes |-> node_mutate(child.nodes[k])],
                                  MaxMutations - mutations) :
         /\ child' = [child EXCEPT !.nodes = m]
         /\ mutations' = mutations + Changed(child.nodes, m)
    /\ pc' = "edge_props"
    /\ UNCHANGED node_count
    /\ MutateFrame

MutateEdgeProperties ==
    /\ pc = "edge_props"
    /\ \E m \in mutate_properties(child.edges,
                                  [k \in DOMAIN child.edges |-> edge_mutate(child.edges[k])],
                                  MaxMutations - mutations) :
         /\ child' = [child EXCEPT !.edges = m]
         /\ mutations' = mutations + Changed(child.edges, m)
    /\ pc' = "insert"
    /\ UNCHANGED node_count
    /\ MutateFrame

\* new_child returns; the child and its ancestors are put in new_population
InsertChild ==
    /\ pc = "insert"
    /\ new_gid_to_genome' = (child.key :> child) @@ new_gid_to_genome
    /\ new_gid_to_ancestors' = (child.key :> parents) @@ new_gid_to_ancestors
    /\ child' = Null
    /\ parents' = <<>>
    /\ pc' = "children"
    /\ UNCHANGED <<output_size, net_call, partition_adjusted_fitnesses,
                   max_generations, dist_call, cycle_call, gid_to_genome, gid_to_ancestors, partitions, node_count,
                   global_count, partition_count, gen, fitnesses, best,
                   sizes, sp, size, old_members, unpartitioned, new_partitions,
                   init_idx, mutations>>

\* next_generation returns new_population, which run assigns to population
\* and partitions with the partitions of the generation before
Respeciate ==
    /\ pc = "ng_return"
    /\ gid_to_genome' = new_gid_to_genome
    /\ gid_to_ancestors' = new_gid_to_ancestors
    /\ unpartitioned' = DOMAIN new_gid_to_genome
    /\ new_partitions' = <<>>
    /\ init_idx' = 1
    /\ new_gid_to_genome' = EmptyFun
    /\ new_gid_to_ancestors' = EmptyFun
    /\ partition_adjusted_fitnesses' = EmptyFun
    /\ sizes' = NoSizes
    /\ sp' = 0
    /\ pc' = "partition"
    /\ UNCHANGED <<output_size, net_call, max_generations, dist_call, cycle_call, partitions, node_count, global_count,
                   partition_count, gen, fitnesses, best, size, old_members, parents, child,
                   mutations>>

Next ==
    \/ PartitionRepresentative
    \/ PartitionGenome
    \/ PartitionReturn
    \/ Evaluate
    \/ NextGenerationBegin
    \/ SpeciesBegin
    \/ NewChild
    \/ SpeciesEnd
    \/ MutateAddNode
    \/ MutateDelNode
    \/ MutateAddEdge
    \/ MutateDelEdge
    \/ MutateNodeProperties
    \/ MutateEdgeProperties
    \/ InsertChild
    \/ Respeciate

Spec == Init /\ [][Next]_vars

\* run with a population of two.  run is one sequential program: a step
\* that can be taken is taken.
InitRun == Init /\ Cardinality(DOMAIN gid_to_genome) = 2

SpecRun == InitRun /\ [][Next]_vars /\ WF_vars(Next)


(***************************************************************************)
(* next_partition_sizes on its own: the species and the fitnesses are      *)
(* drawn from bounded sets and the first statements of next_generation     *)
(* are applied to them                                                     *)
(***************************************************************************)
\* the gids of species i when the species have n[1], n[2], ... members
MembersOf(n, i) ==
    LET before == SeqSum([j \in 1 .. (i - 1) |-> n[j]])
    IN [j \in 1 .. n[i] |-> before + j]

PlainGenome(gid) ==
    Genome(gid, [k \in output_keys |-> 0], [uv \in input_keys \X output_keys |-> 0])

InitSizes ==
    /\ output_size = 1
    /\ \E k \in 1 .. MaxSpecies :
         \E n \in [1 .. k -> 1 .. MaxMembers] :
            LET total == SeqSum(n)
            IN /\ partitions = [i \in 1 .. k |->
                                  Partition(i, MembersOf(n, i),
                                            PlainGenome(MembersOf(n, i)[1]))]
               /\ gid_to_genome = [gid \in 1 .. total |-> PlainGenome(gid)]
               /\ gid_to_ancestors = [gid \in 1 .. total |-> <<>>]
               /\ fitnesses \in [1 .. total -> FitnessVals]
               /\ global_count = total + 1
               /\ partition_count = k + 1
    /\ max_generations = 1
    /\ dist_call = Null
    /\ cycle_call = Null
    /\ node_count = MIN_NODE_COUNT
    /\ unpartitioned = {}
    /\ new_partitions = <<>>
    /\ init_idx = 1
    /\ pc = "next_generation"
    /\ net_call = Null
    /\ gen = 1
    /\ best = 0
    /\ mutations = 0
    /\ NoLocals

NextSizes == NextGenerationBegin

SpecSizes == InitSizes /\ [][NextSizes]_vars

(***************************************************************************)
(* Properties                                                              *)
(***************************************************************************)
(* SpecDist: Genome.dist called on two genomes, in both directions.  The   *)
(* genomes are those of a run with two inputs and one output: they have    *)
(* the output node, with or without the hidden node MIN_NODE_COUNT, and    *)
(* edges between the keys they have, in any insertion order                *)
(* (_mutate_del_edge_ followed by _mutate_add_edge_ puts an edge at the    *)
(* end of the dict).  The edges of other have the weight 0, so that the    *)
(* differences of the weights are the weights of self.                     *)
(***************************************************************************)
DistInputKeys == {-1, -2}
DistWeightVals == {1, 8}
DistOtherWeightVals == {0}

\* the sequences without a repetition of elements of K
Orders(K) ==
    UNION { { s \in [1 .. n -> K] : \A i, j \in 1 .. n : s[i] = s[j] => i = j } :
            n \in 0 .. Cardinality(K) }

DistGenomes(weights) ==
    LET hidden == {MIN_NODE_COUNT}
        plain == DistInputKeys \X output_keys
        all == plain \cup ({-1} \X hidden) \cup (hidden \X output_keys)
        make(nodes, s, w) ==
            [key |-> 1, nodes |-> nodes,
             edges |-> [i \in DOMAIN s |-> [uv |-> s[i], edge |-> Edge(w[i])]]]
        nodes0 == [k \in output_keys |-> Node(k, 0)]
        nodes1 == [k \in output_keys \cup hidden |-> Node(k, 0)]
    IN UNION { { make(nodes0, s, w) : w \in [DOMAIN s -> weights] } :
               s \in Orders(plain) }
       \cup
       UNION { { make(nodes1, s, w) : w \in [DOMAIN s -> weights] } :
               s \in Orders(all) }

InitDist ==
    /\ output_size = 1
    /\ \E g \in DistGenomes(DistWeightVals), h \in DistGenomes(DistOtherWeightVals) :
         dist_call = [self |-> g, other |-> h, d |-> <<>>]
    /\ cycle_call = Null
    /\ pc = "dist"
    /\ net_call = Null
    /\ max_generations = 0
    /\ gid_to_genome = EmptyFun
    /\ gid_to_ancestors = EmptyFun
    /\ partitions = <<>>
    /\ fitnesses = EmptyFun
    /\ global_count = 1
    /\ partition_count = 1
    /\ node_count = MIN_NODE_COUNT + 1
    /\ unpartitioned = {}
    /\ new_partitions = <<>>
    /\ init_idx = 1
    /\ gen = 0
    /\ best = 0
    /\ mutations = 0
    /\ NoLocals

\* self.dist(other) and other.dist(self)
Dist ==
    /\ pc = "dist"
    /\ dist_call' = [dist_call EXCEPT
                       !.d = <<float_dist(dist_call.self, dist_call.other),
                               float_dist(dist_call.other, dist_call.self)>>]
    /\ pc' = "dist_return"
    /\ UNCHANGED <<output_size, net_call, partition_adjusted_fitnesses,
                   cycle_call, max_generations, gid_to_genome, gid_to_ancestors, partitions,
                   node_count, global_count, partition_count, gen, fitnesses,
                   best, new_gid_to_genome, new_gid_to_ancestors, sizes, sp,
                   size, old_members, parents, child, unpartitioned,
                   new_partitions, init_idx, mutations>>

NextDist == Dist

SpecDist == InitDist /\ [][NextDist]_vars

(***************************************************************************)
(* SpecChild: next_generation on one species of three genomes that earlier *)
(* generations left behind: each has the output node, with or without the  *)
(* hidden node MIN_NODE_COUNT, and any of the edges between the keys it     *)
(* has (_mutate_del_edge_ deletes any edge, also one of the constructor);   *)
(* the third is a copy of the first, as a crossover of a genome with       *)
(* itself gives.                                                           *)
(* The species gets one child; the run stops before the child is mutated.  *)
(***************************************************************************)
ParentGenomes(gid) ==
    LET hidden == {MIN_NODE_COUNT}
        plain == input_keys \X output_keys
        all == plain \cup (input_keys \X hidden) \cup (hidden \X output_keys)
        weights(K) == [uv \in K |-> IF uv \in plain THEN WeightVals ELSE {0}]
        make(nodes, K) ==
            { [key |-> gid, nodes |-> nodes, edges |-> [uv \in K |-> Edge(w[uv])]] :
                w \in FunProduct(K, weights(K)) }
    IN UNION { make([k \in output_keys |-> Node(k, 0)], K) : K \in SUBSET plain }
       \cup
       UNION { make([k \in output_keys \cup hidden |-> Node(k, 0)], K) :
               K \in SUBSET all }

InitChild ==
    /\ output_size = 1
    /\ \E g1 \in ParentGenomes(1), g2 \in ParentGenomes(2) :
         /\ Compatible(dist(g2, g1))
         /\ gid_to_genome = <<g1, g2, [g1 EXCEPT !.key = 3]>>
         /\ partitions = <<Partition(1, <<1, 2, 3>>, g1)>>
    /\ gid_to_ancestors = [gid \in 1 .. 3 |-> <<>>]
    /\ fitnesses \in [1 .. 3 -> FitnessVals]
    /\ global_count = 4
    /\ partition_count = 2
    /\ node_count = MIN_NODE_COUNT + 1
    /\ max_generations = 1
    /\ dist_call = Null
    /\ cycle_call = Null
    /\ unpartitioned = {}
    /\ new_partitions = <<>>
    /\ init_idx = 1
    /\ pc = "next_generation"
    /\ net_call = Null
    /\ gen = 1
    /\ best = 0
    /\ mutations = 0
    /\ NoLocals

NextChild ==
    \/ NextGenerationBegin
    \/ SpeciesBegin
    \/ NewChild

SpecChild == InitChild /\ [][NextChild]_vars

(***************************************************************************)
(* SpecAddEdge: _mutate_add_edge_ on the child of a run with one input and *)
(* two outputs.  The child has the two output nodes, with or without the   *)
(* hidden node MIN_NODE_COUNT, and an acyclic set of edges between its     *)
(* keys, none of them from an output to an output.                         *)
(***************************************************************************)
AddEdgeChildren ==
    LET hidden == {MIN_NODE_COUNT}
        plain == input_keys \X output_keys
        all == plain \cup (input_keys \X hidden) \cup (hidden \X output_keys)
                     \cup (output_keys \X hidden)
        make(nodes, K) == [key |-> 3, nodes |-> nodes, edges |-> [uv \in K |-> Edge(0)]]
    IN { make([k \in output_keys |-> Node(k, 0)], K) : K \in SUBSET plain }
       \cup
       { make([k \in output_keys \cup hidden |-> Node(k, 0)], K) :
           K \in { K \in SUBSET all :
                     \A o \in output_keys :
                        ~(<<o, MIN_NODE_COUNT>> \in K /\ <<MIN_NODE_COUNT, o>> \in K) } }

InitAddEdge ==
    /\ output_size = 2
    /\ child \in AddEdgeChildren
    /\ pc = "add_edge"
    /\ net_call = Null
    /\ gid_to_genome = <<PlainGenome(1), PlainGenome(2)>>
    /\ gid_to_ancestors = [gid \in 1 .. 2 |-> <<>>]
    /\ partitions = <<Partition(1, <<1, 2>>, PlainGenome(1))>>
    /\ fitnesses = [gid \in 1 .. 2 |-> 0]
    /\ new_gid_to_genome = <<PlainGenome(1), PlainGenome(2)>>
    /\ new_gid_to_ancestors = EmptyFun
    /\ partition_adjusted_fitnesses = <<[num |-> 0, den |-> 2]>>
    /\ sizes = [step2 |-> <<3>>, rounded |-> <<3>>, sizes |-> <<3>>]
    /\ sp = 1
    /\ size = 0
    /\ old_members = <<1, 2>>
    /\ parents = <<1, 2>>
    /\ global_count = 4
    /\ partition_count = 2
    /\ node_count = MIN_NODE_COUNT + 1
    /\ max_generations = 1
    /\ dist_call = Null
    /\ cycle_call = Null
    /\ unpartitioned = {}
    /\ new_partitions = <<>>
    /\ init_idx = 1
    /\ gen = 1
    /\ best = 0
    /\ mutations = 0

NextAddEdge == MutateAddEdge

SpecAddEdge == InitAddEdge /\ [][NextAddEdge]_vars

(***************************************************************************)
(* SpecAddNode: _mutate_add_node_ called on the genomes of SpecAddEdge,    *)
(* the genomes without edges among them.                                   *)
(***************************************************************************)
InitAddNode ==
    /\ output_size = 2
    /\ child \in AddEdgeChildren
    /\ pc = "add_node"
    /\ net_call = Null
    /\ gid_to_genome = <<PlainGenome(1), PlainGenome(2)>>
    /\ gid_to_ancestors = [gid \in 1 .. 2 |-> <<>>]
    /\ partitions = <<Partition(1, <<1, 2>>, PlainGenome(1))>>
    /\ fitnesses = [gid \in 1 .. 2 |-> 0]
    /\ new_gid_to_genome = <<PlainGenome(1), PlainGenome(2)>>
    /\ new_gid_to_ancestors = EmptyFun
    /\ partition_adjusted_fitnesses = <<[num |-> 0, den |-> 2]>>
    /\ sizes = [step2 |-> <<3>>, rounded |-> <<3>>, sizes |-> <<3>>]
    /\ sp = 1
    /\ size = 0
    /\ old_members = <<1, 2>>
    /\ parents = <<1, 2>>
    /\ global_count = 4
    /\ partition_count = 2
    /\ node_count = MIN_NODE_COUNT + 1
    /\ max_generations = 1
    /\ dist_call = Null
    /\ cycle_call = Null
    /\ unpartitioned = {}
    /\ new_partitions = <<>>
    /\ init_idx = 1
    /\ gen = 1
    /\ best = 0
    /\ mutations = 0

NextAddNode == MutateAddNode

SpecAddNode == InitAddNode /\ [][NextAddNode]_vars

(***************************************************************************)
(* SpecRejected: _mutate_del_node_, _mutate_add_edge_ and                  *)
(* _mutate_del_edge_ called in turn on the genomes of SpecAddEdge and on   *)
(* the chain -1 -> A -> B -> 0.                                            *)
(***************************************************************************)
\* the chain -1 -> A -> B -> 0 with the weight w on its edges
Chain(w) ==
    [key |-> 3,
     nodes |-> [k \in output_keys \cup {MIN_NODE_COUNT, MIN_NODE_COUNT + 1} |->
                  Node(k, 0)],
     edges |-> [uv \in {<<-1, MIN_NODE_COUNT>>,
                        <<MIN_NODE_COUNT, MIN_NODE_COUNT + 1>>,
                        <<MIN_NODE_COUNT + 1, 0>>} |-> Edge(w)]]

RejectedChildren == AddEdgeChildren \cup {Chain(w) : w \in WeightVals}

InitRejected ==
    /\ output_size = 2
    /\ child \in RejectedChildren
    /\ pc = "del_node"
    /\ net_call = Null
    /\ gid_to_genome = <<PlainGenome(1), PlainGenome(2)>>
    /\ gid_to_ancestors = [gid \in 1 .. 2 |-> <<>>]
    /\ partitions = <<Partition(1, <<1, 2>>, PlainGenome(1))>>
    /\ fitnesses = [gid \in 1 .. 2 |-> 0]
    /\ new_gid_to_genome = <<PlainGenome(1), PlainGenome(2)>>
    /\ new_gid_to_ancestors = EmptyFun
    /\ partition_adjusted_fitnesses = <<[num |-> 0, den |-> 2]>>
    /\ sizes = [step2 |-> <<3>>, rounded |-> <<3>>, sizes |-> <<3>>]
    /\ sp = 1
    /\ size = 0
    /\ old_members = <<1, 2>>
    /\ parents = <<1, 2>>
    /\ global_count = 4
    /\ partition_count = 2
    /\ node_count = MIN_NODE_COUNT + 2
    /\ max_generations = 1
    /\ dist_call = Null
    /\ cycle_call = Null
    /\ unpartitioned = {}
    /\ new_partitions = <<>>
    /\ init_idx = 1
    /\ gen = 1
    /\ best = 0
    /\ mutations = 0

NextRejected == MutateDelNode \/ MutateAddEdge \/ MutateDelEdge

SpecRejected == InitRejected /\ [][NextRejected]_vars

(***************************************************************************)
(* SpecKeep: Population.partition called with two species of the           *)
(* generation before and a population of two or three genomes at any       *)
(* distance from the old representatives.                                  *)
(***************************************************************************)
\* the genomes have one weight of 0, 2 or 6 on their edges: distances of
\* 0, 1, 2 and 3 (the threshold)
InitKeep ==
    /\ output_size = 1
    /\ LET KeepWeightVals == {0, 2, 6}
           KeepGenome(gid, w) ==
               Genome(gid, [k \in output_keys |-> 0],
                      [uv \in input_keys \X output_keys |-> w])
       IN /\ \E w1 \in KeepWeightVals, w2 \in KeepWeightVals :
               partitions = <<Partition(1, <<1>>, KeepGenome(1, w1)),
                              Partition(2, <<2>>, KeepGenome(2, w2))>>
          /\ \E n \in PopulationSizes :
               \E w \in [4 .. (3 + n) -> KeepWeightVals] :
                  /\ gid_to_genome = [gid \in 4 .. (3 + n) |-> KeepGenome(gid, w[gid])]
                  /\ gid_to_ancestors = [gid \in 4 .. (3 + n) |-> <<1, 2>>]
                  /\ unpartitioned = 4 .. (3 + n)
                  /\ global_count = 4 + n
    /\ pc = "partition"
    /\ net_call = Null
    /\ dist_call = Null
    /\ cycle_call = Null
    /\ max_generations = 1
    /\ fitnesses = EmptyFun
    /\ partition_count = 3
    /\ node_count = MIN_NODE_COUNT
    /\ new_partitions = <<>>
    /\ init_idx = 1
    /\ gen = 1
    /\ best = 0
    /\ mutations = 0
    /\ NoLocals

NextKeep == PartitionRepresentative \/ PartitionGenome \/ PartitionReturn

SpecKeep == InitKeep /\ [][NextKeep]_vars

(***************************************************************************)
(* SpecCycle: creates_cycle called on any set of edges between three       *)
(* keys, self loops and cycles included, and any u and v among them.       *)
(***************************************************************************)
CycleKeys == {-1, 0, MIN_NODE_COUNT}

InitCycle ==
    /\ output_size = 1
    /\ \E edges \in SUBSET (CycleKeys \X CycleKeys), u \in CycleKeys, v \in CycleKeys :
         cycle_call = [edges |-> edges, u |-> u, v |-> v, out |-> "none"]
    /\ dist_call = Null
    /\ pc = "creates_cycle"
    /\ net_call = Null
    /\ max_generations = 0
    /\ gid_to_genome = EmptyFun
    /\ gid_to_ancestors = EmptyFun
    /\ partitions = <<>>
    /\ fitnesses = EmptyFun
    /\ global_count = 1
    /\ partition_count = 1
    /\ node_count = MIN_NODE_COUNT + 1
    /\ unpartitioned = {}
    /\ new_partitions = <<>>
    /\ init_idx = 1
    /\ gen = 0
    /\ best = 0
    /\ mutations = 0
    /\ NoLocals

CreatesCycle ==
    /\ pc = "creates_cycle"
    /\ cycle_call' = [cycle_call EXCEPT
                        !.out = creates_cycle(cycle_call.edges, cycle_call.u,
                                              cycle_call.v)]
    /\ pc' = "creates_cycle_return"
    /\ UNCHANGED <<output_size, net_call, partition_adjusted_fitnesses,
                   max_generations, dist_call, gid_to_genome,
                   gid_to_ancestors, partitions,
                   node_count, global_count, partition_count, gen, fitnesses,
                   best, new_gid_to_genome, new_gid_to_ancestors, sizes, sp,
                   size, old_members, parents, child, unpartitioned,
                   new_partitions, init_idx, mutations>>

NextCycle == CreatesCycle

SpecCycle == InitCycle /\ [][NextCycle]_vars

(***************************************************************************)
(* SpecFitness: adjust_fitnesses on up to MaxSpecies species of up to      *)
(* MaxMembers members, with fitnesses that are floats.                     *)
(***************************************************************************)
FloatFitnessVals == {3, 4}

InitFitness ==
    /\ output_size = 1
    /\ \E k \in 1 .. MaxSpecies :
         \E n \in [1 .. k -> 1 .. MaxMembers] :
            LET total == SeqSum(n)
            IN /\ partitions = [i \in 1 .. k |->
                                  Partition(i, MembersOf(n, i),
                                            PlainGenome(MembersOf(n, i)[1]))]
               /\ gid_to_genome = [gid \in 1 .. total |-> PlainGenome(gid)]
               /\ gid_to_ancestors = [gid \in 1 .. total |-> <<>>]
               /\ fitnesses \in [1 .. total -> FloatFitnessVals]
               /\ global_count = total + 1
               /\ partition_count = k + 1
    /\ max_generations = 1
    /\ dist_call = Null
    /\ cycle_call = Null
    /\ node_count = MIN_NODE_COUNT
    /\ unpartitioned = {}
    /\ new_partitions = <<>>
    /\ init_idx = 1
    /\ pc = "adjust_fitnesses"
    /\ net_call = Null
    /\ gen = 1
    /\ best = 0
    /\ mutations = 0
    /\ NoLocals

AdjustFitnesses ==
    /\ pc = "adjust_fitnesses"
    /\ partition_adjusted_fitnesses' = float_adjust_fitnesses(partitions, fitnesses)
    /\ pc' = "adjust_fitnesses_return"
    /\ UNCHANGED <<output_size, net_call, max_generations, dist_call, cycle_call,
                   gid_to_genome, gid_to_ancestors, partitions,
                   node_count, global_count, partition_count, gen, fitnesses,
                   best, new_gid_to_genome, new_gid_to_ancestors, sizes, sp,
                   size, old_members, parents, child, unpartitioned,
                   new_partitions, init_idx, mutations>>

NextFitness == AdjustFitnesses

SpecFitness == InitFitness /\ [][NextFitness]_vars

(***************************************************************************)
(* NeuralNetwork (src/pyneat/network.py)                                   *)
(*                                                                         *)
(* The value of a node is the default 0, a value of the input vector, or   *)
(* the term activation(bias + aggregation(node_inputs)) the forward pass   *)
(* computes for it, kept as a record: the activation functions are not     *)
(* interpreted.                                                            *)
(***************************************************************************)
\* the while loop of _required_nodes
RECURSIVE RequiredLoop(_, _, _, _)
RequiredLoop(edges, inputs, required, seen) ==
    LET layer == {uv[1] : uv \in {e \in edges : e[2] \in seen /\ e[1] \notin seen}}
        layer_nodes == layer \ inputs
    IN IF layer = {} THEN required
       ELSE IF layer_nodes = {} THEN required
       ELSE RequiredLoop(edges, inputs, required \cup layer_nodes,
                         seen \cup layer)

\* NeuralNetwork._required_nodes
required_nodes(edges, in_keys, out_keys) ==
    RequiredLoop(edges, Range(in_keys), Range(out_keys), Range(out_keys))

\* the while loop of _make_layers without the test that all the sources
\* of a candidate are seen
RECURSIVE LayersLoop_any_source(_, _, _, _)
LayersLoop_any_source(required, edges, layers, seen) ==
    LET candidates ==
            {uv[2] : uv \in {e \in edges : e[1] \in seen /\ e[2] \notin seen}}
        layer == {w \in candidates : w \in required}
    IN IF layer = {} THEN layers
       ELSE LayersLoop_any_source(required, edges, Append(layers, layer),
                                  seen \cup layer)

\* the while loop of _make_layers
RECURSIVE LayersLoop(_, _, _, _)
LayersLoop(required, edges, layers, seen) ==
    LET candidates ==
            {uv[2] : uv \in {e \in edges : e[1] \in seen /\ e[2] \notin seen}}
        layer == {w \in candidates :
                    /\ w \in required
                    /\ \A e \in edges : e[2] = w => e[1] \in seen}
    IN IF layer = {} THEN layers
       ELSE LayersLoop(required, edges, Append(layers, layer),
                       seen \cup layer)

\* NeuralNetwork._make_layers
make_layers(required, edges, in_keys) ==
    LayersLoop(required, edges, <<>>, Range(in_keys))

\* EvalNode of a node: incoming_connections maps the source u of every
\* active edge (u, node) to the weight of the edge
EvalNode(node, edges, genome) ==
    [node_id |-> node,
     activation |-> genome.nodes[node].activation,
     aggregation |-> genome.nodes[node].aggregation,
     bias |-> genome.nodes[node].bias,
     incoming_connections |->
        [u \in {e[1] : e \in {e \in edges : e[2] = node}} |->
            genome.edges[<<u, node>>].weight]]

\* NeuralNetwork._make_eval_nodes : the nodes in the order of the layers
RECURSIVE make_eval_nodes(_, _, _)
make_eval_nodes(layers, edges, genome) ==
    IF layers = <<>> THEN <<>>
    ELSE LET layer == SetToSeq(Head(layers))
         IN [i \in 1 .. Len(layer) |-> EvalNode(layer[i], edges, genome)]
            \o make_eval_nodes(Tail(layers), edges, genome)

\* the lists _make_eval_nodes can return: "for node in layer" iterates
\* over a set, in an order the language leaves open
RECURSIVE eval_nodes_orders(_, _, _)
eval_nodes_orders(layers, edges, genome) ==
    IF layers = <<>> THEN {<<>>}
    ELSE { [i \in DOMAIN layer |-> EvalNode(layer[i], edges, genome)] \o rest :
             layer \in {s \in Orders(Head(layers)) :
                          Len(s) = Cardinality(Head(layers))},
             rest \in eval_nodes_orders(Tail(layers), edges, genome) }

\* NeuralNetwork.make_network
make_network(genome, in_keys, out_keys) ==
    LET edges == {uv \in DOMAIN genome.edges : genome.edges[uv].active}
        required == required_nodes(edges, in_keys, out_keys)
        layers == make_layers(required, edges, in_keys)
    IN [input_keys |-> in_keys, output_keys |-> out_keys,
        layers |-> layers,
        eval_nodes |-> make_eval_nodes(layers, edges, genome)]

\* the loop of forward with a node that reads every value written so
\* far, not only the sources of its incoming connections
RECURSIVE Evaluated_reading_all_values(_, _)
Evaluated_reading_all_values(eval_nodes, values) ==
    IF eval_nodes = <<>> THEN values
    ELSE LET n == Head(eval_nodes)
             node_inputs == [i \in DOMAIN values |->
                               [value |-> values[i],
                                weight |-> IF i \in DOMAIN n.incoming_connections
                                           THEN n.incoming_connections[i]
                                           ELSE 1]]
             v == [activation |-> n.activation,
                   aggregation |-> n.aggregation,
                   bias |-> n.bias, node_inputs |-> node_inputs]
         IN Evaluated_reading_all_values(Tail(eval_nodes),
                      (n.node_id :> v) @@ values)

\* the loop of forward over eval_nodes
RECURSIVE Evaluated(_, _)
Evaluated(eval_nodes, values) ==
    IF eval_nodes = <<>> THEN values
    ELSE LET n == Head(eval_nodes)
             node_inputs == [i \in DOMAIN n.incoming_connections |->
                               [value |-> values[i],
                                weight |-> n.incoming_connections[i]]]
             v == [activation |-> n.activation,
                   aggregation |-> n.aggregation,
                   bias |-> n.bias, node_inputs |-> node_inputs]
         IN Evaluated(Tail(eval_nodes),
                      (n.node_id :> v) @@ values)

\* a float that is given, not computed by a node
Float(v) == [value |-> v]

\* zip(self.input_keys, x) : the pairs up to the shorter of the two
Zip(in_keys, x) ==
    [k \in {in_keys[i] : i \in (DOMAIN in_keys) \cap (DOMAIN x)} |->
        Float(x[CHOOSE i \in (DOMAIN in_keys) \cap (DOMAIN x) : in_keys[i] = k])]

\* NeuralNetwork.forward with 1.0 for 0.0 as the value a key starts with
forward_default_one(net, x) ==
    LET values == [k \in Range(net.input_keys) \cup Range(net.output_keys) |-> Float(1)]
        given == Zip(net.input_keys, x) @@ values
        final == Evaluated(net.eval_nodes, given)
    IN [i \in DOMAIN net.output_keys |-> final[net.output_keys[i]]]

\* NeuralNetwork.forward
forward(net, x) ==
    LET values == [k \in Range(net.input_keys) \cup Range(net.output_keys) |-> Float(0)]
        given == Zip(net.input_keys, x) @@ values
        final == Evaluated(net.eval_nodes, given)
    IN [i \in DOMAIN net.output_keys |-> final[net.output_keys[i]]]

(***************************************************************************)
(* SpecNetwork: make_network and forward called on a genome with two       *)
(* inputs, one output and up to two hidden nodes, each edge active or      *)
(* not, and an input vector of any length up to three.                     *)
(***************************************************************************)
NetInputKeys == <<-1, -2>>
NetOutputKeys == <<0>>
NetEdgeKeys ==
    {<<-1, 0>>, <<-1, MIN_NODE_COUNT>>, <<MIN_NODE_COUNT, 0>>,
     <<MIN_NODE_COUNT + 1, 0>>, <<MIN_NODE_COUNT, MIN_NODE_COUNT + 1>>,
     <<-2, MIN_NODE_COUNT + 1>>}
NetInputs == {<<>>, <<1>>, <<1, 2>>, <<1, 2, 3>>}

\* the genomes with some of the edges of NetEdgeKeys, a node for every
\* end of an edge that is not an input, the bias b and the weight w
NetGenomes ==
    { [key |-> 1,
       nodes |-> [k \in (Range(NetOutputKeys)
                         \cup {uv[1] : uv \in DOMAIN active}
                         \cup {uv[2] : uv \in DOMAIN active})
                        \ Range(NetInputKeys) |-> Node(k, b)],
       edges |-> [uv \in DOMAIN active |->
                    [weight |-> w, active |-> active[uv]]]] :
        active \in UNION {[E -> BOOLEAN] : E \in SUBSET NetEdgeKeys},
        b \in BiasVals, w \in WeightVals }

InitNetwork ==
    /\ output_size = 1
    /\ \E genome \in NetGenomes, x \in NetInputs :
         net_call = [genome |-> genome, x |-> x, net |-> Null, out |-> <<>>]
    /\ dist_call = Null
    /\ cycle_call = Null
    /\ pc = "make_network"
    /\ max_generations = 0
    /\ gid_to_genome = EmptyFun
    /\ gid_to_ancestors = EmptyFun
    /\ partitions = <<>>
    /\ fitnesses = EmptyFun
    /\ global_count = 1
    /\ partition_count = 1
    /\ node_count = MIN_NODE_COUNT + 2
    /\ unpartitioned = {}
    /\ new_partitions = <<>>
    /\ init_idx = 1
    /\ gen = 0
    /\ best = 0
    /\ mutations = 0
    /\ NoLocals

\* the active edges of the genome of the call
NetActiveEdges ==
    {uv \in DOMAIN net_call.genome.edges : net_call.genome.edges[uv].active}

\* make_network, with any order of the nodes of a same layer
MakeNetwork ==
    /\ pc = "make_network"
    /\ LET net == make_network(net_call.genome, NetInputKeys, NetOutputKeys)
       IN \E eval_nodes \in eval_nodes_orders(net.layers, NetActiveEdges,
                                               net_call.genome) :
            net_call' = [net_call EXCEPT
                           !.net = [net EXCEPT !.eval_nodes = eval_nodes]]
    /\ pc' = "forward"
    /\ UNCHANGED <<output_size, partition_adjusted_fitnesses,
                   max_generations, dist_call, cycle_call, gid_to_genome,
                   gid_to_ancestors, partitions,
                   node_count, global_count, partition_count, gen, fitnesses,
                   best, new_gid_to_genome, new_gid_to_ancestors, sizes, sp,
                   size, old_members, parents, child, unpartitioned,
                   new_partitions, init_idx, mutations>>

Forward ==
    /\ pc = "forward"
    /\ net_call' = [net_call EXCEPT !.out = forward(net_call.net, net_call.x)]
    /\ pc' = "forward_return"
    /\ UNCHANGED <<output_size, partition_adjusted_fitnesses,
                   max_generations, dist_call, cycle_call, gid_to_genome,
                   gid_to_ancestors, partitions,
                   node_count, global_count, partition_count, gen, fitnesses,
                   best, new_gid_to_genome, new_gid_to_ancestors, sizes, sp,
                   size, old_members, parents, child, unpartitioned,
                   new_partitions, init_idx, mutations>>

NextNetwork == MakeNetwork \/ Forward

SpecNetwork == InitNetwork /\ [][NextNetwork]_vars

(***************************************************************************)
(* SpecPopulation: initial_population called with an output_size below,    *)
(* at and above MIN_NODE_COUNT, and the add-node mutation of a member of   *)
(* the population it returns.                                              *)
(***************************************************************************)
OutputSizes == {1, MIN_NODE_COUNT, MIN_NODE_COUNT + 1}

InitPopulation ==
    /\ output_size \in OutputSizes
    /\ max_generations \in MaxGenerationsVals
    /\ pc = "initial_population"
    /\ net_call = Null
    /\ dist_call = Null
    /\ cycle_call = Null
    /\ gid_to_genome = EmptyFun
    /\ gid_to_ancestors = EmptyFun
    /\ partitions = <<>>
    /\ fitnesses = EmptyFun
    /\ global_count = 1
    /\ partition_count = 1
    /\ node_count = MIN_NODE_COUNT
    /\ unpartitioned = {}
    /\ new_partitions = <<>>
    /\ init_idx = 1
    /\ gen = 0
    /\ best = 0
    /\ mutations = 0
    /\ NoLocals

\* Population.initial_population : no test of args, one genome per gid;
\* the edges of one genome are all drawn the same weight
InitialPopulation ==
    /\ pc = "initial_population"
    /\ \E n \in PopulationSizes :
         \E bias \in [1 .. n -> InitBiasVals], weight \in [1 .. n -> WeightVals] :
            /\ gid_to_genome' =
                 initial_population(n,
                    [gid \in 1 .. n |-> [k \in output_keys |-> bias[gid]]],
                    [gid \in 1 .. n |->
                        [uv \in input_keys \X output_keys |-> weight[gid]]])
            /\ gid_to_ancestors' = [gid \in 1 .. n |-> <<>>]
            /\ global_count' = global_count + n
    /\ pc' = "initial_population_return"
    /\ UNCHANGED <<output_size, net_call, partition_adjusted_fitnesses,
                   max_generations, dist_call, cycle_call, partitions,
                   node_count, partition_count, gen, fitnesses,
                   best, new_gid_to_genome, new_gid_to_ancestors, sizes, sp,
                   size, old_members, parents, child, unpartitioned,
                   new_partitions, init_idx, mutations>>

\* Genome.mutate_ called on a member of the population: its first step is
\* _mutate_add_node_
MutateMember ==
    /\ pc = "initial_population_return"
    /\ \E gid \in DOMAIN gid_to_genome : child' = gid_to_genome[gid]
    /\ pc' = "add_node"
    /\ UNCHANGED <<output_size, net_call, partition_adjusted_fitnesses,
                   max_generations, dist_call, cycle_call, gid_to_genome,
                   gid_to_ancestors, partitions,
                   node_count, global_count, partition_count, gen, fitnesses,
                   best, new_gid_to_genome, new_gid_to_ancestors, sizes, sp,
                   size, old_members, parents, unpartitioned,
                   new_partitions, init_idx, mutations>>

NextPopulation == InitialPopulation \/ MutateMember \/ MutateAddNode

SpecPopulation == InitPopulation /\ [][NextPopulation]_vars



(***************************************************************************)
\* every genome the state holds: the population, the population under
\* construction, the child being made, the representatives
AllGenomes ==
    Range(gid_to_genome) \cup Range(new_gid_to_genome)
    \cup (IF child = Null THEN {} ELSE {child})
    \cup {partitions[i].representative : i \in DOMAIN partitions}
    \cup {new_partitions[i].representative : i \in DOMAIN new_partitions}

HiddenNodes(g) == (DOMAIN g.nodes) \ output_keys

\* C1: in every genome, every edge (u, v) has u among the input keys or the
\* node keys, v among the node keys and not an input key, and u # v
C1_ReferentialIntegrity ==
    \A g \in AllGenomes : \A uv \in DOMAIN g.edges :
        /\ uv[1] \in input_keys \cup DOMAIN g.nodes
        /\ uv[2] \in DOMAIN g.nodes
        /\ uv[2] \notin input_keys
        /\ uv[1] # uv[2]

\* a child whose added node was deleted again, with the edges at it: the
\* split edge is left, inactive
C1_Witness ==
    /\ pc = "add_edge"
    /\ mutations = 2
    /\ HiddenNodes(child) = {}
    /\ \E uv \in DOMAIN child.edges : ~child.edges[uv].active

\* the nodes reached from the nodes of S by one edge or more
RECURSIVE Descendants(_, _, _)
Descendants(edges, frontier, found) ==
    LET next == {uv[2] : uv \in {e \in edges : e[1] \in frontier}} \ found
    IN IF next = {} THEN found ELSE Descendants(edges, next, found \cup next)

\* no node is reached from itself
Acyclic(edges) ==
    \A uv \in edges : uv[1] \notin Descendants(edges, {uv[1]}, {})

\* C2: in every genome the graph of all the edges, active or not, has no
\* directed cycle
C2_Acyclic == \A g \in AllGenomes : Acyclic(DOMAIN g.edges)

\* a child, past its add-edge step, in which some edge between two of its
\* nodes would close a cycle and whose split edge Edge.mutate_ has made
\* active again
C2_Witness ==
    /\ pc = "insert"
    /\ \E k \in HiddenNodes(child) : \E uv \in DOMAIN child.edges :
         /\ <<uv[1], k>> \in DOMAIN child.edges
         /\ <<k, uv[2]>> \in DOMAIN child.edges
         /\ child.edges[uv].active
         /\ creates_cycle(DOMAIN child.edges, uv[2], k)

\* C3: in every genome every output key has a node and no input key has one
C3_OutputNodesKept ==
    \A g \in AllGenomes :
        /\ output_keys \subseteq DOMAIN g.nodes
        /\ input_keys \cap DOMAIN g.nodes = {}

\* a child of the crossover from which delete-node took a node, now in the
\* new population
C3_Witness ==
    /\ pc = "children"
    /\ Cardinality(DOMAIN new_gid_to_ancestors) = 1
    /\ node_count = MIN_NODE_COUNT + 2
    /\ \E gid \in DOMAIN new_gid_to_ancestors :
         LET g == new_gid_to_genome[gid]
         IN /\ HiddenNodes(g) = {}
            /\ \E uv \in DOMAIN g.edges : ~g.edges[uv].active

\* how many times gid is in the members of the species
RECURSIVE Occurrences(_, _)
Occurrences(parts, gid) ==
    IF parts = <<>> THEN 0
    ELSE Cardinality({j \in DOMAIN Head(parts).members : Head(parts).members[j] = gid})
         + Occurrences(Tail(parts), gid)

\* partition has returned: partitions are those of the population
Partitioned == pc # "partition"

\* C4: after partition every genome id of the population is in the members
\* of exactly one species, once, and the species hold no other ids
C4_ExactlyOneSpecies ==
    Partitioned =>
        /\ \A gid \in DOMAIN gid_to_genome : Occurrences(partitions, gid) = 1
        /\ \A i \in DOMAIN partitions :
             Range(partitions[i].members) \subseteq DOMAIN gid_to_genome

\* the population of the second generation partitioned from the species of
\* the first: two species or more, one of them with two members or more
C4_Witness ==
    /\ pc = "evaluate"
    /\ gen = 1
    /\ Len(partitions) >= 2
    /\ \E i \in DOMAIN partitions : Len(partitions[i].members) >= 2

\* C5: after partition the representative of every species is a genome of
\* the population, is a member of its species, and represents no other
\* species
C5_Representatives ==
    Partitioned =>
        /\ \A i \in DOMAIN partitions :
             LET rep == partitions[i].representative
             IN /\ rep.key \in DOMAIN gid_to_genome
                /\ gid_to_genome[rep.key] = rep
                /\ rep.key \in Range(partitions[i].members)
        /\ \A i, j \in DOMAIN partitions :
             i # j => partitions[i].representative.key
                        # partitions[j].representative.key

\* the second generation partitioned: a species whose representative is a
\* child made in next_generation and which has another member too
C5_Witness ==
    /\ pc = "evaluate"
    /\ gen = 1
    /\ \E i \in DOMAIN partitions :
         /\ partitions[i].representative.key \in DOMAIN gid_to_ancestors
         /\ gid_to_ancestors[partitions[i].representative.key] # <<>>
         /\ Len(partitions[i].members) >= 2


\* next_partition_sizes has returned
SizesComputed == pc = "species"

PopSize == Cardinality(DOMAIN gid_to_genome)
Pids == DOMAIN sizes.sizes
SumSizes == SumOver(Pids, sizes.sizes)
SumRounded == SumOver(Pids, sizes.rounded)

\* C6, as claimed: the sizes returned sum to pop_size within the rounding,
\* at most 1/2 for each species
C6_SumWithinRounding ==
    SizesComputed => 2 * Abs(SumSizes - PopSize) <= Cardinality(Pids)

\* C6, amended: the renormalised sizes sum to pop_size within the rounding
\* (at most 1/2 for each species) before they are raised to
\* MIN_SPECIES_SIZE; the sum returned is that sum plus what the raising
\* adds, so it is never below pop_size by more than the rounding
C6_SumBeforeFloor ==
    SizesComputed =>
        /\ 2 * Abs(SumRounded - PopSize) <= Cardinality(Pids)
        /\ SumSizes - SumRounded =
             SumOver(Pids, [p \in Pids |->
                              Max(0, MIN_SPECIES_SIZE - sizes.rounded[p])])
        /\ 2 * (PopSize - SumSizes) <= Cardinality(Pids)

\* sizes that were renormalised by a factor other than 1, none of them
\* raised, and whose sum differs from pop_size by the rounding
C6_Witness ==
    /\ SizesComputed
    /\ SumOver(Pids, sizes.step2) # PopSize
    /\ sizes.rounded = sizes.sizes
    /\ SumSizes # PopSize

\* C7: every size returned is at least MIN_SPECIES_SIZE, and the sizes of
\* the first loop are positive, so that their sum, the divisor of the
\* renormalisation, is too
C7_MinSpeciesSize ==
    SizesComputed =>
        /\ \A p \in Pids : sizes.sizes[p] >= MIN_SPECIES_SIZE
        /\ \A p \in Pids : sizes.step2[p] > 0
        /\ SumOver(Pids, sizes.step2) > 0

\* all the adjusted fitnesses are zero, a species had one member, and a
\* species whose renormalised size fell below MIN_SPECIES_SIZE was raised
C7_Witness ==
    /\ SizesComputed
    /\ \A g \in DOMAIN fitnesses : fitnesses[g] = 0
    /\ \E i \in DOMAIN partitions : Len(partitions[i].members) = 1
    /\ \E p \in Pids : sizes.rounded[p] < MIN_SPECIES_SIZE

\* C8: the distance of a genome to itself is zero, in its node part and in
\* its edge part
C8_DistSelfZero ==
    \A g \in AllGenomes :
        /\ nodes_dist(g, g).num = 0
        /\ edges_dist(g, g).num = 0
        /\ dist(g, g).num = 0

\* a genome with no edge at all, and one with a hidden node
C8_Witness ==
    /\ \E g \in AllGenomes : DOMAIN g.edges = {}
    /\ \E g \in AllGenomes : HiddenNodes(g) # {} /\ DOMAIN g.edges # {}

\* Genome.dist has returned in both directions
DistReturned == pc = "dist_return"

\* the keys of the items that K has too, in the order of the items
KeysIn(items, K) ==
    LET keys == [i \in DOMAIN items |-> items[i].uv]
        in_K(uv) == uv \in K
    IN SelectSeq(keys, in_K)

\* the edges that both genomes have come in the same order in both
SameOrder(g, h) ==
    KeysIn(g.edges, DOMAIN EdgeMap(h.edges)) = KeysIn(h.edges, DOMAIN EdgeMap(g.edges))

\* C9, as claimed: the distance between two genomes is the same in both
\* directions
C9_DistSymmetric ==
    DistReturned => RatEq(dist_call.d[1], dist_call.d[2])

\* C9, amended: the distance between two genomes is the same in both
\* directions when the edges that both have come in the same order in the
\* two edge dicts; without the rounding of the floats it is the same in
\* both directions for every pair of genomes
C9_DistSymmetricInOrder ==
    DistReturned =>
        LET g == dist_call.self
            h == dist_call.other
        IN /\ SameOrder(g, h) => RatEq(dist_call.d[1], dist_call.d[2])
           /\ RatEq(dist(Unordered(g), Unordered(h)), dist(Unordered(h), Unordered(g)))

\* two genomes with three edges in common, in the same order which is not
\* the order of the keys, the first with an edge and a node more, whose
\* float distance is not the distance without rounding
C9_Witness ==
    /\ DistReturned
    /\ LET g == dist_call.self
           h == dist_call.other
           gk == DOMAIN EdgeMap(g.edges)
           hk == DOMAIN EdgeMap(h.edges)
       IN /\ SameOrder(g, h)
          /\ Cardinality(gk \cap hk) = 3
          /\ gk \ hk # {}
          /\ h.edges[1].uv # g.edges[1].uv
          /\ ~RatEq(dist_call.d[1], dist(Unordered(g), Unordered(h)))
          /\ dist_call.d[1].num > 0

\* next_generation is about to return new_population
NextGenerationDone == pc = "ng_return"

\* T holds n members of the species none of which is less fit than a member
\* outside T
TopMembers(members, T, n) ==
    /\ T \subseteq Range(members)
    /\ Cardinality(T) = n
    /\ \A t \in T : \A m \in Range(members) \ T : fitnesses[t] >= fitnesses[m]

\* C10: when next_generation returns, for every species its top
\* min(ELITISM, |members|) members by fitness are in the new population
\* under their gid, with the nodes and edges they have in the old one
C10_Elitism ==
    NextGenerationDone =>
        \A i \in DOMAIN partitions :
            LET members == partitions[i].members
                n == IF Len(members) < ELITISM THEN Len(members) ELSE ELITISM
            IN \E T \in SUBSET Range(members) :
                 /\ TopMembers(members, T, n)
                 /\ \A t \in T : /\ t \in DOMAIN new_gid_to_genome
                                 /\ new_gid_to_genome[t] = gid_to_genome[t]

\* a species with more members than ELITISM, of different fitnesses, and an
\* elite that is a parent of a child which differs from it by a mutation
C10_Witness ==
    /\ NextGenerationDone
    /\ \E i \in DOMAIN partitions :
         /\ Len(partitions[i].members) > ELITISM
         /\ \E a, b \in Range(partitions[i].members) : fitnesses[a] # fitnesses[b]
    /\ \E c \in DOMAIN new_gid_to_ancestors :
         \E e \in Range(new_gid_to_ancestors[c]) :
            /\ e \in DOMAIN new_gid_to_genome
            /\ new_gid_to_genome[e] = gid_to_genome[e]
            /\ new_gid_to_genome[c].edges # gid_to_genome[e].edges
    /\ mutations > 0

\* new_child has made the child by crossover and has not mutated it yet
ChildCrossed == pc = "add_node"

\* the parent whose crossover_edges and crossover_nodes new_child calls
FitterParent ==
    IF fitnesses[parents[1]] < fitnesses[parents[2]]
    THEN gid_to_genome[parents[2]] ELSE gid_to_genome[parents[1]]

\* C11: after the crossover and before the mutation the edge keys of the
\* child are exactly the edge keys of the fitter parent
C11_ChildEdgeKeys ==
    ChildCrossed => DOMAIN child.edges = DOMAIN FitterParent.edges

\* C12: an edge that _mutate_add_edge_ inserts is no self loop and does not
\* join two output keys
C12_NoSelfLoopNoOutputEdge ==
    [][pc = "add_edge" =>
         \A uv \in (DOMAIN child'.edges) \ (DOMAIN child.edges) :
            /\ uv[1] # uv[2]
            /\ ~(uv[1] \in output_keys /\ uv[2] \in output_keys)]_vars

\* _mutate_add_edge_ has inserted an edge into a child with two outputs
\* and a hidden node that has an edge which starts at an output
C12_Witness ==
    /\ pc = "del_edge"
    /\ mutations = 1
    /\ Cardinality(output_keys) = 2
    /\ HiddenNodes(child) # {}
    /\ \E uv \in DOMAIN child.edges : uv[1] \in output_keys

\* C13: creates_cycle returns, and returns TRUE exactly when u = v or a
\* directed path of the edges leads from v to u
C13_CreatesCycle ==
    pc = "creates_cycle_return" =>
        /\ cycle_call.out \in BOOLEAN
        /\ cycle_call.out =
             (\/ cycle_call.u = cycle_call.v
              \/ cycle_call.u \in Descendants(cycle_call.edges, {cycle_call.v}, {}))

\* creates_cycle has returned TRUE for u # v on edges that hold a cycle
\* which u is not on, with a path of two edges from v to u
C13_Witness ==
    /\ pc = "creates_cycle_return"
    /\ cycle_call.out = TRUE
    /\ cycle_call.u # cycle_call.v
    /\ <<cycle_call.v, cycle_call.u>> \notin cycle_call.edges
    /\ \E k \in CycleKeys \ {cycle_call.u} : <<k, k>> \in cycle_call.edges
    /\ \E k \in CycleKeys \ {cycle_call.u} :
          /\ <<cycle_call.v, k>> \in cycle_call.edges
          /\ <<k, cycle_call.v>> \in cycle_call.edges

\* adjust_fitnesses has returned
FitnessesAdjusted == pc = "adjust_fitnesses_return"

InUnitInterval(r) == r.num >= 0 /\ r.num <= r.den

\* the float sum of the members' fitnesses is their sum
ExactSum(members) ==
    RatEq(float_sum([j \in DOMAIN members |-> fitnesses[members[j]]], Rat(0)),
          Rat(SeqSum([j \in DOMAIN members |-> fitnesses[members[j]]])))

\* C14, as claimed: the adjusted fitness of every species is in [0, 1]
C14_AdjustedInUnitInterval ==
    FitnessesAdjusted =>
        \A pid \in DOMAIN partition_adjusted_fitnesses :
            InUnitInterval(partition_adjusted_fitnesses[pid])

\* C14, amended: the adjusted fitness of a species is in [0, 1] when the
\* float sum of its members' fitnesses is exact; without the rounding of
\* the floats the adjusted fitness of every species is in [0, 1]
C14_AdjustedInUnitIntervalExactSum ==
    FitnessesAdjusted =>
        /\ \A i \in DOMAIN partitions :
              ExactSum(partitions[i].members) =>
                  InUnitInterval(partition_adjusted_fitnesses[partitions[i].key])
        /\ \A pid \in DOMAIN partition_adjusted_fitnesses :
              InUnitInterval(adjust_fitnesses(partitions, fitnesses)[pid])

\* all the fitnesses are equal, and so below MIN_FITNESS_RANGE apart; a
\* species has more than one member and an exact sum
C14_Witness ==
    /\ FitnessesAdjusted
    /\ \A g, h \in DOMAIN fitnesses : fitnesses[g] = fitnesses[h]
    /\ \E i \in DOMAIN partitions :
          /\ Len(partitions[i].members) > 1
          /\ ExactSum(partitions[i].members)
    /\ Len(partitions) > 1

(***************************************************************************)
\* the active edges of the genome of the call, the nodes a value is
\* computed or given for, the sources of the active edges into k
NetActive ==
    {uv \in DOMAIN net_call.genome.edges : net_call.genome.edges[uv].active}
NetLayered == UNION Range(net_call.net.layers)
NetSources(k) == {uv[1] : uv \in {e \in NetActive : e[2] = k}}
NetworkMade == pc \in {"forward", "forward_return"}
ForwardReturned == pc = "forward_return"

\* C15: forward called with a number of inputs different from the number
\* of input keys fails with an error: it never returns outputs for such
\* an input
C15_ForwardFailsFast ==
    ForwardReturned => Len(net_call.x) = Len(net_call.net.input_keys)

\* C16: initial_population called with output_size >= MIN_NODE_COUNT fails
\* with an error: no population is built then, and the node counter is
\* above every output key of a population that is built
C16_InitialPopulationFailsFast ==
    gid_to_genome # EmptyFun =>
        /\ output_size < MIN_NODE_COUNT
        /\ \A k \in output_keys : k < node_count


\* what run returns: the loop ends by break and no return statement
\* follows it, so the caller gets None
run_return == Null

\* C17 as stated: when run stops, it returns the genome of greatest fitness
\* in the fitness map of the last evaluated population
C17_ReturnsBest ==
    pc = "done" =>
        \E gid \in DOMAIN fitnesses :
            /\ \A h \in DOMAIN fitnesses : fitnesses[h] <= fitnesses[gid]
            /\ run_return = gid_to_genome[gid]

\* C17, amended: when run stops, the genome it hands to visualize is a
\* genome of the last evaluated population with the greatest fitness in
\* that generation's fitness map; run itself returns nothing
C17_BestVisualized ==
    pc = "done" =>
        /\ DOMAIN fitnesses = DOMAIN gid_to_genome
        /\ best \in DOMAIN fitnesses
        /\ \A h \in DOMAIN fitnesses : fitnesses[h] <= fitnesses[best]
        /\ run_return = Null

\* run has stopped after the second evaluation because max_generations
\* was exceeded, with genomes of different fitness
C17_Witness ==
    /\ pc = "done"
    /\ gen = 2
    /\ gen > max_generations
    /\ ~stop_reached(fitnesses)
    /\ \E g \in DOMAIN fitnesses : fitnesses[g] < fitnesses[best]

\* every gid and every node key the state holds
AllGids ==
    DOMAIN gid_to_genome \cup DOMAIN new_gid_to_genome
    \cup {g.key : g \in AllGenomes}
AllNodeKeys ==
    UNION {DOMAIN g.nodes \cup {g.nodes[k].key : k \in DOMAIN g.nodes} :
             g \in AllGenomes}

\* C18: the counters never go back; a child gets the next value of the gid
\* counter, which is greater than every gid handed out before, and so
\* is inserted under a gid the new population does not hold yet; in a
\* population every genome is stored under its own gid; add-node gives
\* the new node the next value of the node counter, which is at least
\* MIN_NODE_COUNT, greater than every node key handed out before and in
\* no genome's node map
C18_MonotonicIds ==
    [][/\ global_count' >= global_count
       /\ node_count' >= node_count
       /\ \A gid \in AllGids : gid < global_count
       /\ \A k \in AllNodeKeys : k < node_count
       /\ \A gid \in DOMAIN gid_to_genome : gid_to_genome[gid].key = gid
       /\ \A gid \in DOMAIN new_gid_to_genome :
             new_gid_to_genome[gid].key = gid
       /\ (pc = "children" /\ pc' = "add_node") =>
             /\ child'.key = global_count
             /\ global_count' > global_count
       /\ pc = "insert" => child.key \notin DOMAIN new_gid_to_genome
       /\ (pc = "add_node" /\ mutations' # mutations) =>
             /\ node_count' > node_count
             /\ node_count >= MIN_NODE_COUNT
             /\ \A g \in AllGenomes : node_count \notin DOMAIN g.nodes
             /\ DOMAIN child'.nodes = DOMAIN child.nodes \cup {node_count}
             /\ child'.nodes[node_count].key = node_count]_vars

\* add-node has just given a child a hidden node, in a new population
\* that already holds an elite and another child with a hidden node
C18_Witness ==
    /\ pc = "del_node"
    /\ node_count - 1 \in DOMAIN child.nodes
    /\ \E gid \in DOMAIN new_gid_to_ancestors :
          /\ gid < child.key
          /\ HiddenNodes(new_gid_to_genome[gid]) # {}
          /\ \A k \in HiddenNodes(new_gid_to_genome[gid]) : k < node_count - 1
    /\ DOMAIN new_gid_to_ancestors # {}
    /\ DOMAIN new_gid_to_genome \ DOMAIN new_gid_to_ancestors # {}

\* the value forward computes for an evaluated node k
NodeValue(k, values) ==
    [activation |-> net_call.genome.nodes[k].activation,
     aggregation |-> net_call.genome.nodes[k].aggregation,
     bias |-> net_call.genome.nodes[k].bias,
     node_inputs |-> values]

\* the nodes with a path of active edges from an input key
NetReachable == Descendants(NetActive, Range(NetInputKeys), {})

NetRequired ==
    Range(NetOutputKeys)
    \cup {k \in DOMAIN net_call.genome.nodes :
            Descendants(NetActive, {k}, {}) \cap Range(NetOutputKeys) # {}}

\* C20: make_network puts every required node that is reachable from the
\* inputs into exactly one layer and makes exactly one evaluation record
\* for it
C20_LayeringComplete ==
    NetworkMade =>
        \A k \in NetRequired \cap NetReachable :
            /\ Cardinality({i \in DOMAIN net_call.net.layers :
                              k \in net_call.net.layers[i]}) = 1
            /\ Cardinality({i \in DOMAIN net_call.net.eval_nodes :
                              net_call.net.eval_nodes[i].node_id = k}) = 1

\* C21: the outputs forward returns are a function of the genome and of the
\* input alone: whatever order the nodes of a same layer were emitted
\* in, they are the outputs of the network with every layer in ascending
\* order
C21_CompilationDeterministic ==
    ForwardReturned =>
        net_call.out = forward(make_network(net_call.genome, NetInputKeys,
                                            NetOutputKeys), net_call.x)

\* forward has returned from a network with two nodes in one layer,
\* emitted in descending order, both feeding the output
C21_Witness ==
    /\ ForwardReturned
    /\ \E i \in DOMAIN net_call.net.layers :
          net_call.net.layers[i] = {MIN_NODE_COUNT, MIN_NODE_COUNT + 1}
    /\ \E i \in DOMAIN net_call.net.eval_nodes :
          /\ i + 1 \in DOMAIN net_call.net.eval_nodes
          /\ net_call.net.eval_nodes[i].node_id = MIN_NODE_COUNT + 1
          /\ net_call.net.eval_nodes[i + 1].node_id = MIN_NODE_COUNT
    /\ 0 \in NetLayered
    /\ NetSources(0) = {MIN_NODE_COUNT, MIN_NODE_COUNT + 1}

\* the mean of the fitness values has reached the threshold
MeanReached(fit) ==
    SumOver(DOMAIN fit, fit) >= StopThreshold * Cardinality(DOMAIN fit)

C23_AncestorsRecorded ==
    /\ DOMAIN gid_to_genome \subseteq DOMAIN gid_to_ancestors
    /\ \A gid \in DOMAIN gid_to_ancestors :
          \/ gid_to_ancestors[gid] = <<>>
          \/ /\ Len(gid_to_ancestors[gid]) = 2
             /\ \A i \in 1 .. 2 : gid_to_ancestors[gid][i] < gid

\* the layer the node k is in
NetLayerOf(k) == CHOOSE i \in DOMAIN net_call.net.layers : k \in net_call.net.layers[i]

\* C24: in the list of evaluation records every incoming source of a
\* record is an input key or the node of a record that comes before it
\* and is in a strictly earlier layer, so that forward reads written
\* values only; no node has two records or is in two layers
C24_TopologicalOrder ==
    NetworkMade =>
        LET nodes == net_call.net.eval_nodes
        IN /\ \A i \in DOMAIN nodes :
                /\ nodes[i].node_id \in NetLayered
                /\ \A u \in DOMAIN nodes[i].incoming_connections :
                      \/ u \in Range(net_call.net.input_keys)
                      \/ /\ \E j \in 1 .. (i - 1) : nodes[j].node_id = u
                         /\ u \in NetLayered
                         /\ NetLayerOf(u) < NetLayerOf(nodes[i].node_id)
           /\ \A i, j \in DOMAIN nodes :
                nodes[i].node_id = nodes[j].node_id => i = j
           /\ \A i, j \in DOMAIN net_call.net.layers :
                i # j => net_call.net.layers[i] \cap net_call.net.layers[j] = {}

\* forward has returned from a network of three layers: the output reads
\* a hidden node that reads another hidden node
C24_Witness ==
    /\ ForwardReturned
    /\ net_call.net.layers =
          <<{MIN_NODE_COUNT}, {MIN_NODE_COUNT + 1}, {0}>>
    /\ MIN_NODE_COUNT \in NetSources(MIN_NODE_COUNT + 1)
    /\ NetSources(0) = {-1, MIN_NODE_COUNT, MIN_NODE_COUNT + 1}

\* C25: add-node that fires on a genome with an edge picks an edge (u, v)
\* of weight w: the node map gains the one key k, the next value of the
\* counter, at least MIN_NODE_COUNT; the edge map gains (u, k) of weight
\* 1.0 and (k, v) of weight w, both active; (u, v) is kept, inactive, with
\* its weight; no other node or edge changes.  On a genome without edges,
\* and when it does not fire, nothing changes.
C25_AddNodeFrame ==
    [][pc = "add_node" =>
         IF mutations' = mutations \/ DOMAIN child.edges = {}
         THEN child' = child /\ node_count' = node_count
         ELSE \E uv \in DOMAIN child.edges :
                LET k == node_count
                    w == child.edges[uv].weight
                    u_k == <<uv[1], k>>
                    k_v == <<k, uv[2]>>
                IN /\ k >= MIN_NODE_COUNT
                   /\ k \notin DOMAIN child.nodes
                   /\ DOMAIN child'.nodes = DOMAIN child.nodes \cup {k}
                   /\ child'.nodes[k].key = k
                   /\ \A n \in DOMAIN child.nodes :
                         child'.nodes[n] = child.nodes[n]
                   /\ {u_k, k_v} \cap DOMAIN child.edges = {}
                   /\ DOMAIN child'.edges = DOMAIN child.edges \cup {u_k, k_v}
                   /\ child'.edges[u_k] = [weight |-> 1, active |-> TRUE]
                   /\ child'.edges[k_v] = [weight |-> w, active |-> TRUE]
                   /\ child'.edges[uv] = [weight |-> w, active |-> FALSE]
                   /\ \A e \in DOMAIN child.edges \ {uv} :
                         child'.edges[e] = child.edges[e]
                   /\ child'.key = child.key]_vars

\* add-node has split an edge between two hidden nodes' neighbours: the
\* child with hidden node MIN_NODE_COUNT has got the node
\* MIN_NODE_COUNT + 1 on its edge to an output
C25_Witness ==
    /\ pc = "del_node"
    /\ mutations = 1
    /\ DOMAIN child.nodes \ output_keys = {MIN_NODE_COUNT, MIN_NODE_COUNT + 1}
    /\ \E o \in output_keys :
          /\ <<MIN_NODE_COUNT, o>> \in DOMAIN child.edges
          /\ ~child.edges[<<MIN_NODE_COUNT, o>>].active
          /\ <<MIN_NODE_COUNT, MIN_NODE_COUNT + 1>> \in DOMAIN child.edges
          /\ <<MIN_NODE_COUNT + 1, o>> \in DOMAIN child.edges

\* the edge (u, v) would close a cycle of the edges
ClosesCycle(edges, u, v) == u = v \/ u \in Descendants(edges, {v}, {})

\* the edge add-edge must reject on the genome g
Rejected(g, u, v) ==
    \/ <<u, v>> \in DOMAIN g.edges
    \/ (u \in output_keys /\ v \in output_keys)
    \/ ClosesCycle(DOMAIN g.edges, u, v)

\* C26: add-edge leaves the genome as it is when the edge it proposes
\* exists, joins two output keys or would close a cycle, and the edge it
\* adds is never such an edge; delete-node leaves the genome as it is when
\* every node is an output, delete-edge when there is no edge
C26_RejectedBranchesNoOp ==
    [][/\ pc = "add_edge" =>
            /\ \A out_node \in DOMAIN child.nodes,
                  in_node \in (DOMAIN child.nodes) \cup input_keys,
                  w \in WeightVals :
                    Rejected(child, in_node, out_node) =>
                        mutate_add_edge(child, in_node, out_node, w) = child
            /\ child' # child =>
                  \E uv \in (DOMAIN child'.edges) \ (DOMAIN child.edges) :
                     /\ ~Rejected(child, uv[1], uv[2])
                     /\ child'.nodes = child.nodes
                     /\ DOMAIN child'.edges = DOMAIN child.edges \cup {uv}
                     /\ \A e \in DOMAIN child.edges :
                           child'.edges[e] = child.edges[e]
       /\ (pc = "del_node" /\ DOMAIN child.nodes \subseteq output_keys) =>
            child' = child
       /\ (pc = "del_edge" /\ DOMAIN child.edges = {}) =>
            child' = child]_vars

\* add-edge has run on the chain -1 -> A -> B -> 0, on which the edge
\* (B, A) closes a cycle, and the chain is as it was
C26_Witness ==
    /\ pc = "del_edge"
    /\ child \in {Chain(w) : w \in WeightVals}
    /\ add_edge_stop(child, MIN_NODE_COUNT + 1, MIN_NODE_COUNT)
    /\ <<MIN_NODE_COUNT + 1, MIN_NODE_COUNT>> \notin DOMAIN child.edges

\* the parent that is not the fitter one
OtherParent ==
    IF fitnesses[parents[1]] < fitnesses[parents[2]]
    THEN gid_to_genome[parents[1]] ELSE gid_to_genome[parents[2]]

BelowThreshold(d) == d.num < COMPATIBILITY_THRESHOLD_X2 * d.den

\* C28: a genome popped in the second loop of partition is appended to a
\* species whose representative is nearest to it among the species whose
\* representative is strictly below COMPATIBILITY_THRESHOLD from it; if
\* there is none, a species with the next id of the counter, which no
\* species has, is opened with the genome as sole member and
\* representative.  After partition every member of a species is its
\* representative or strictly below the threshold from it.
C28_SpeciesAssignment ==
    /\ [][(pc = "partition" /\ init_idx > Len(partitions)
                            /\ unpartitioned' # unpartitioned) =>
            \E gid \in unpartitioned :
               LET g == gid_to_genome[gid]
                   d(i) == dist(new_partitions[i].representative, g)
                   near == {i \in DOMAIN new_partitions : BelowThreshold(d(i))}
               IN /\ unpartitioned' = unpartitioned \ {gid}
                  /\ IF near = {}
                     THEN /\ new_partitions' =
                               Append(new_partitions,
                                      [key |-> partition_count,
                                       members |-> <<gid>>,
                                       representative |-> g])
                          /\ \A i \in DOMAIN new_partitions :
                                new_partitions[i].key # partition_count
                          /\ partition_count' = partition_count + 1
                     ELSE /\ \E i \in near :
                                /\ \A j \in near : ~RatLess(d(j), d(i))
                                /\ new_partitions' =
                                     [new_partitions EXCEPT
                                        ![i].members = Append(@, gid)]
                          /\ partition_count' = partition_count]_vars
    /\ [](Partitioned =>
            \A i \in DOMAIN partitions :
               \A m \in Range(partitions[i].members) :
                  \/ m = partitions[i].representative.key
                  \/ BelowThreshold(dist(partitions[i].representative,
                                         gid_to_genome[m])))

\* the second generation is partitioned into a species kept from the
\* first, which a genome that is not its representative has joined, and
\* a species opened in this call
C28_Witness ==
    /\ Partitioned
    /\ gen = 1
    /\ Len(partitions) >= 2
    /\ Len(partitions[1].members) >= 2
    /\ Len(partitions[Len(partitions)].members) = 1
    /\ partitions[Len(partitions)].key = partition_count - 1
    /\ DOMAIN gid_to_genome # 1 .. Cardinality(DOMAIN gid_to_genome)

\* the ids of the species of parts
SpeciesIds(parts) == {parts[i].key : i \in DOMAIN parts}

\* C29: no species id is ever lost; in the first loop of partition every
\* species of the generation before gets as new representative, and sole
\* member so far, an unpartitioned genome nearest to its old
\* representative, with no test of the distance; the ids of the species
\* are distinct, a new one never equal to a kept one; and there is an
\* unpartitioned genome left for every species still to be kept
C29_SpeciesKept ==
    /\ [][/\ SpeciesIds(partitions) \subseteq SpeciesIds(partitions')
          /\ (pc = "partition" /\ init_idx <= Len(partitions)) =>
                LET old == partitions[init_idx]
                    d(gid) == dist(old.representative, gid_to_genome[gid])
                IN \E gid \in unpartitioned :
                     /\ \A h \in unpartitioned : ~RatLess(d(h), d(gid))
                     /\ new_partitions' =
                          Append(new_partitions,
                                 [key |-> old.key, members |-> <<gid>>,
                                  representative |-> gid_to_genome[gid]])
                     /\ unpartitioned' = unpartitioned \ {gid}
                     /\ init_idx' = init_idx + 1
          /\ (pc = "partition" /\ pc' # "partition") =>
                /\ partitions' = new_partitions
                /\ \A i \in DOMAIN partitions :
                      partitions'[i].key = partitions[i].key]_vars
    /\ [](/\ \A i, j \in DOMAIN partitions :
               i # j => partitions[i].key # partitions[j].key
          /\ \A i, j \in DOMAIN new_partitions :
               i # j => new_partitions[i].key # new_partitions[j].key
          /\ \A i \in DOMAIN partitions : partitions[i].key < partition_count
          /\ pc = "partition" =>
               Cardinality(unpartitioned) >= Len(partitions) - init_idx + 1)

\* the second generation: the first loop of partition has given a kept
\* species a representative that is not below the threshold from the old
\* one
C29_Witness ==
    /\ pc = "partition"
    /\ gen = 1
    /\ init_idx > Len(partitions)
    /\ Len(partitions) = 2
    /\ \E i \in DOMAIN partitions :
          /\ new_partitions[i].key = partitions[i].key
          /\ ~BelowThreshold(dist(partitions[i].representative,
                                  new_partitions[i].representative))

\* the elites of the species p copied into the new population so far
ElitesOf(p) == Range(p.members) \cap DOMAIN new_gid_to_genome

\* the children of the species p created so far
ChildrenOf(p) ==
    {c \in DOMAIN new_gid_to_ancestors : new_gid_to_ancestors[c][1] \in Range(p.members)}

\* C30: next_generation fills the quota of every species exactly.  The quota
\* left never goes negative; inside the loop the elites copied, the children
\* created and the quota left add up to the size next_partition_sizes gave;
\* at the return every species has min(ELITISM, |members|) elites and
\* quota - elites children, and the new population has the sum of the quotas
\* as its number of genomes; the quotas are computed from the number of
\* genomes of the current population.
C30_QuotaFilled ==
    /\ [](size >= 0)
    /\ [](pc = "children" =>
            LET p == partitions[sp]
            IN Cardinality(ElitesOf(p)) + Cardinality(ChildrenOf(p)) + size
                  = sizes.sizes[p.key])
    /\ [](pc = "ng_return" =>
            /\ \A i \in DOMAIN partitions :
                  LET p == partitions[i]
                  IN /\ Cardinality(ElitesOf(p))
                          = (IF Len(p.members) < ELITISM THEN Len(p.members) ELSE ELITISM)
                     /\ Cardinality(ElitesOf(p)) + Cardinality(ChildrenOf(p))
                          = sizes.sizes[p.key]
            /\ Cardinality(DOMAIN new_gid_to_genome)
                  = SumOver(DOMAIN sizes.sizes, sizes.sizes))
    /\ [][pc = "next_generation" =>
            sizes' \in next_partition_sizes(partitions,
                                            adjust_fitnesses(partitions, fitnesses),
                                            Cardinality(DOMAIN gid_to_genome))]_vars

\* next_generation is about to return a population larger than the current
\* one: a species of one member gave its only member as elite and a child
C30_Witness ==
    /\ pc = "ng_return"
    /\ Cardinality(DOMAIN new_gid_to_genome) > Cardinality(DOMAIN gid_to_genome)
    /\ \E i \in DOMAIN partitions :
          /\ Cardinality(ElitesOf(partitions[i])) = 1
          /\ ChildrenOf(partitions[i]) # {}


=============================================================================
